---- MODULE Spec2Model ----
(***************************************************************************)
(* Model of the job orchestration and scheduling runtime of tg-scraper     *)
(* (src/scraper_service.py): the promo scheduler, the broadcast engine,    *)
(* the collection engine and the in-memory job registries.                 *)
(*                                                                         *)
(* Every coroutine is cut at its awaits: one action is the code that runs  *)
(* between two suspension points of the asyncio event loop.                *)
(***************************************************************************)
EXTENDS Integers, Sequences, FiniteSets, TLC

(***************************************************************************)
(* Bounds of the model.                                                    *)
(***************************************************************************)
MaxDay == 2
TicksPerDay == 3
MaxPeers == 2
MaxOps == 3
MaxSends == 2
MaxMembers == 2
MaxBJobs == 2
MaxFloods == 1
MaxSJobs == 2
MaxYield == 2
MaxClockSteps == 1
\* CHUNK_SIZE is 100 in the source; scaled down so that the chunk branches run
CHUNK_SIZE == 2

(***************************************************************************)
(* Program constants.                                                      *)
(***************************************************************************)
PROMO_SLOTS == <<"morning", "noon", "evening">>
PROMO_DEFAULT_SCHEDULE == [s \in {"morning", "noon", "evening"} |->
                             CASE s = "morning" -> 0
                               [] s = "noon"    -> 1
                               [] s = "evening" -> 2]

Slots == {PROMO_SLOTS[i] : i \in 1..Len(PROMO_SLOTS)}
Days == 1..MaxDay
Ticks == 0..(TicksPerDay - 1)
Peers == 1..MaxPeers
None == 0

VARIABLES
  now_day,                \* wall clock: the calendar day (the day-key)
  now_tick,               \* wall clock: the time of day
  promo_schedule,         \* table promo_schedule: slot -> time of day
  promo_groups,           \* table promo_groups: row id -> row
  promo_messages,         \* number of enabled rows of promo_messages
  promo_history,          \* table promo_history: (day_key, slot, group_id) -> rows
  promo_paused,           \* global promo_paused
  promo_slot_last_day,    \* global promo_slot_last_day: slot -> day-key or None
  promo_schedule_event,   \* global promo_schedule_event (asyncio.Event)
  sched,                  \* the promo_scheduler_loop task: position and locals
  resumed_since_start,    \* history: promo_resume was called since on_startup
  restarts,               \* history: number of process restarts
  ops,                    \* history: number of operator calls so far
  members,                \* table members: id -> row (NoRow when absent)
  broadcast_history,      \* table broadcast_history: (job_id, member_id) -> rows
  BROADCAST_JOBS,         \* global BROADCAST_JOBS: job id -> record (NoJob when absent)
  current_broadcast_job_id, \* global current_broadcast_job_id
  btask,                  \* the broadcast_users tasks: position and locals
  bsubmit,                \* the send_start request in progress
  SCRAPE_JOBS,            \* global SCRAPE_JOBS: job id -> record (NoScrapeJob when absent)
  scrape_lock,            \* global scrape_lock: the job whose task holds it, or None
  stask,                  \* the scrape_users tasks: position and locals
  exports,                \* the files of CSV_OUTPUT_DIR: chat -> file
  clock,                  \* wall clock of the job registries, in seconds
  reply                   \* the response of the last status request

promoVars == <<now_day, now_tick, promo_schedule, promo_groups, promo_messages,
               promo_history, promo_paused, promo_slot_last_day,
               promo_schedule_event, sched, resumed_since_start, restarts>>

bcastVars == <<members, broadcast_history, BROADCAST_JOBS,
               current_broadcast_job_id, btask, bsubmit>>

scrapeVars == <<SCRAPE_JOBS, scrape_lock, stask, exports, clock, reply>>

vars == <<promoVars, bcastVars, scrapeVars, ops>>

----------------------------------------------------------------------------
(***************************************************************************)
(* Pure helpers.                                                           *)
(***************************************************************************)

\* str ordering of the slot names, used as the last component of the sort key
SlotRank(s) == CASE s = "evening" -> 0 [] s = "morning" -> 1 [] s = "noon" -> 2

AbsTime(d, t) == d * TicksPerDay + t

\* _build_day_key: the calendar date of a moment
_build_day_key(d, t) == d

\* plan.sort(key=lambda e: (e["hour"], e["minute"], e["slot"]))
PlanBefore(a, b) ==
  \/ a.tick < b.tick
  \/ a.tick = b.tick /\ SlotRank(a.slot) < SlotRank(b.slot)

RECURSIVE SortPlan(_)
SortPlan(S) ==
  IF S = {} THEN <<>>
  ELSE LET m == CHOOSE x \in S : \A y \in S \ {x} : PlanBefore(x, y)
       IN <<m>> \o SortPlan(S \ {m})

\* a plan whose windows end at the next entry's start of the same day
PlanWithoutWrap(day_key, schedule) ==
  LET rows == {[slot |-> s, tick |-> schedule[s],
                local_start |-> AbsTime(day_key, schedule[s])] : s \in DOMAIN schedule}
      plan == SortPlan(rows)
      n == Len(plan)
  IN [i \in 1..n |-> [slot |-> plan[i].slot, tick |-> plan[i].tick,
                      local_start |-> plan[i].local_start,
                      next_start |-> plan[(i % n) + 1].local_start]]

\* _build_schedule_plan_for_day
_build_schedule_plan_for_day(day_key, schedule) ==
  LET rows == {[slot |-> s, tick |-> schedule[s],
                local_start |-> AbsTime(day_key, schedule[s])] : s \in DOMAIN schedule}
      plan == SortPlan(rows)
      n == Len(plan)
      NextStart(i) ==
        LET nx == plan[(i % n) + 1].local_start
        IN IF nx <= plan[i].local_start THEN nx + TicksPerDay ELSE nx
  IN [i \in 1..n |-> [slot |-> plan[i].slot, tick |-> plan[i].tick,
                      local_start |-> plan[i].local_start,
                      next_start |-> NextStart(i)]]

\* the query with a WHERE clause that matches no row
FetchSlotDoneNone(hist, day_key, slot) == {}

\* a query that counts a target as done only for a row with status "sent"
FetchSlotDoneSentOnly(hist, day_key, slot) ==
  {g \in Peers : \E i \in 1..Len(hist[<<day_key, slot, g>>]) :
                   hist[<<day_key, slot, g>>][i].status = "sent"}

\* _fetch_slot_done_groups_sync: group ids with any row for (day_key, slot)
_fetch_slot_done_groups_sync(hist, day_key, slot) ==
  {g \in Peers : hist[<<day_key, slot, g>>] # <<>>}

\* _get_active_promo_groups: ids of the enabled rows with a peer, by ascending id
RECURSIVE ActiveFrom(_, _)
ActiveFrom(groups, i) ==
  IF i > Len(groups) THEN <<>>
  ELSE (IF groups[i].enabled /\ groups[i].peer_id # None THEN <<i>> ELSE <<>>)
       \o ActiveFrom(groups, i + 1)

_get_active_promo_groups(groups) == ActiveFrom(groups, 1)

SelectSeqBy(seq, S) == SelectSeq(seq, LAMBDA x : x \in S)

\* the pending list without the filter on done_ids
GetPendingUnfiltered(hist, slot, day_key, groups) == groups

\* _get_pending_groups
_get_pending_groups(hist, slot, day_key, groups) ==
  LET done_ids == _fetch_slot_done_groups_sync(hist, day_key, slot)
  IN SelectSeq(groups, LAMBDA g : g \notin done_ids)

----------------------------------------------------------------------------
(***************************************************************************)
(* Target catalog synchronisation.                                         *)
(***************************************************************************)

RowOfPeer(groups, p) ==
  IF \E i \in 1..Len(groups) : groups[i].peer_id = p
  THEN CHOOSE i \in 1..Len(groups) : groups[i].peer_id = p
  ELSE None

\* _apply_promo_group_records_sync, one record of the loop
RECURSIVE ApplyRecords(_, _)
ApplyRecords(groups, records) ==
  IF records = <<>> THEN groups
  ELSE LET p == Head(records)
           row == RowOfPeer(groups, p)
           g2 == IF row # None
                 THEN [groups EXCEPT ![row].enabled = TRUE]
                 ELSE Append(groups, [peer_id |-> p, enabled |-> TRUE,
                                      last_status |-> "none"])
       IN ApplyRecords(g2, Tail(records))

\* a synchronization that leaves the rows of unobserved peers as they are
DisableNothing(groups, ids) == groups

\* _disable_group_ids
_disable_group_ids(groups, ids) ==
  [i \in 1..Len(groups) |->
     IF i \in ids THEN [groups[i] EXCEPT !.enabled = FALSE] ELSE groups[i]]

RECURSIVE SetToSeq(_)
SetToSeq(S) ==
  IF S = {} THEN <<>>
  ELSE LET m == CHOOSE x \in S : \A y \in S : x <= y
       IN <<m>> \o SetToSeq(S \ {m})

\* _apply_promo_group_records_sync
_apply_promo_group_records_sync(groups, observed) ==
  LET managed_ids == {i \in 1..Len(groups) : groups[i].peer_id # None}
      seen_old == {i \in managed_ids : groups[i].peer_id \in observed}
      applied == ApplyRecords(groups, SetToSeq(observed))
  IN _disable_group_ids(applied, managed_ids \ seen_old)

\* _apply_promo_group_records_sync: the number of rows of promo_groups that
\* its statements write: one UPDATE for every record whose peer has a row,
\* one INSERT for every other record, and the rows of the UPDATE made by
\* _disable_group_ids
SyncWrites(groups, observed) ==
  LET managed_ids == {i \in 1..Len(groups) : groups[i].peer_id # None}
      updated == {i \in managed_ids : groups[i].peer_id \in observed}
      inserted == {q \in observed : RowOfPeer(groups, q) = None}
      missing_ids == managed_ids \ updated
  IN Cardinality(updated) + Cardinality(inserted) + Cardinality(missing_ids)

----------------------------------------------------------------------------
(***************************************************************************)
(* The promo scheduler task.                                               *)
(***************************************************************************)

NoEntry == [slot |-> "none", tick |-> 0, local_start |-> 0, next_start |-> 0]

SchedIdle(pc) ==
  [pc |-> pc, day_key |-> None, now |-> 0, rest |-> <<>>, entry |-> NoEntry,
   pending |-> <<>>, idx |-> 0, status |-> "none", details |-> "none"]

EmptyCache == [s \in Slots |-> None]

\* _promo_scheduler_iteration, the body of "for entry in plan" up to the next
\* await: the entries that are skipped, and the entry (if any) whose
\* _run_promo_slot call gets past the pause check
RECURSIVE ScanPlan(_, _, _, _, _)
ScanPlan(rest, cache, now, day_key, paused) ==
  IF rest = <<>> THEN [cache |-> cache, rest |-> <<>>, run |-> NoEntry]
  ELSE LET e == Head(rest) IN
       IF cache[e.slot] = day_key
         THEN ScanPlan(Tail(rest), cache, now, day_key, paused)
       ELSE IF now < e.local_start
         THEN ScanPlan(Tail(rest), cache, now, day_key, paused)
       ELSE IF now >= e.next_start
         THEN ScanPlan(Tail(rest), [cache EXCEPT ![e.slot] = day_key],
                       now, day_key, paused)
       ELSE IF paused
         THEN ScanPlan(Tail(rest), cache, now, day_key, paused)
       ELSE [cache |-> cache, rest |-> Tail(rest), run |-> e]

\* the scheduler's state after the loop over the plan has run to its next await
Resume_Plan(rest, cache, now, day_key) ==
  LET r == ScanPlan(rest, cache, now, day_key, promo_paused)
  IN /\ promo_slot_last_day' = r.cache
     /\ sched' = IF r.run = NoEntry
                 THEN SchedIdle("wait")
                 ELSE [SchedIdle("fetch") EXCEPT !.day_key = day_key, !.now = now,
                                                !.rest = r.rest, !.entry = r.run]

\* an iteration that keeps the cache entries of earlier days
IterStartKeepsCache ==
  /\ sched.pc = "start"
  /\ LET now == AbsTime(now_day, now_tick)
         day_key == _build_day_key(now_day, now_tick)
         purged == [s \in Slots |->
                      IF promo_slot_last_day[s] # day_key THEN None
                      ELSE promo_slot_last_day[s]]
         plan == _build_schedule_plan_for_day(day_key, promo_schedule)
     IN Resume_Plan(plan, promo_slot_last_day, now, day_key)
  /\ UNCHANGED <<now_day, now_tick, promo_schedule, promo_groups, promo_messages,
                 promo_history, promo_paused, promo_schedule_event,
                 resumed_since_start, restarts, ops>>
  /\ UNCHANGED <<bcastVars, scrapeVars>>

\* _promo_scheduler_iteration, from its start to the first _run_promo_slot
IterStart ==
  /\ sched.pc = "start"
  /\ LET now == AbsTime(now_day, now_tick)
         day_key == _build_day_key(now_day, now_tick)
         purged == [s \in Slots |->
                      IF promo_slot_last_day[s] # day_key THEN None
                      ELSE promo_slot_last_day[s]]
         plan == _build_schedule_plan_for_day(day_key, promo_schedule)
     IN Resume_Plan(plan, purged, now, day_key)
  /\ UNCHANGED <<now_day, now_tick, promo_schedule, promo_groups, promo_messages,
                 promo_history, promo_paused, promo_schedule_event,
                 resumed_since_start, restarts, ops>>
  /\ UNCHANGED <<bcastVars, scrapeVars>>

\* a pass that marks the slot completed when it finds no target or no message
SlotFetchMarksSkipped ==
  /\ sched.pc = "fetch"
  /\ LET groups == _get_active_promo_groups(promo_groups)
         pending == _get_pending_groups(promo_history, sched.entry.slot,
                                        sched.day_key, groups)
         marked == [promo_slot_last_day EXCEPT ![sched.entry.slot] = sched.day_key]
     IN IF groups = <<>> \/ promo_messages = 0
          THEN Resume_Plan(sched.rest, marked, sched.now, sched.day_key)
        ELSE IF pending = <<>>
          THEN Resume_Plan(sched.rest, marked, sched.now, sched.day_key)
        ELSE /\ sched' = [sched EXCEPT !.pc = "send", !.pending = pending, !.idx = 1]
             /\ UNCHANGED promo_slot_last_day
  /\ UNCHANGED <<now_day, now_tick, promo_schedule, promo_groups, promo_messages,
                 promo_history, promo_paused, promo_schedule_event,
                 resumed_since_start, restarts, ops>>
  /\ UNCHANGED <<bcastVars, scrapeVars>>

\* _run_promo_slot, from the reads of the catalogs to the target loop
SlotFetch ==
  /\ sched.pc = "fetch"
  /\ LET groups == _get_active_promo_groups(promo_groups)
         pending == _get_pending_groups(promo_history, sched.entry.slot,
                                        sched.day_key, groups)
         marked == [promo_slot_last_day EXCEPT ![sched.entry.slot] = sched.day_key]
     IN IF groups = <<>> \/ promo_messages = 0
          THEN Resume_Plan(sched.rest, promo_slot_last_day, sched.now, sched.day_key)
        ELSE IF pending = <<>>
          THEN Resume_Plan(sched.rest, marked, sched.now, sched.day_key)
        ELSE /\ sched' = [sched EXCEPT !.pc = "send", !.pending = pending, !.idx = 1]
             /\ UNCHANGED promo_slot_last_day
  /\ UNCHANGED <<now_day, now_tick, promo_schedule, promo_groups, promo_messages,
                 promo_history, promo_paused, promo_schedule_event,
                 resumed_since_start, restarts, ops>>
  /\ UNCHANGED <<bcastVars, scrapeVars>>

RECURSIVE SumLen(_, _)
SumLen(hist, keys) ==
  IF keys = {} THEN 0
  ELSE LET k == CHOOSE x \in keys : TRUE
       IN Len(hist[k]) + SumLen(hist, keys \ {k})

\* number of rows of promo_history
HistoryRows(hist) == SumLen(hist, DOMAIN hist)

SendOutcomes == {"sent", "flood_wait", "rpc_error", "invalid_peer"}

\* _run_promo_slot, the send to one target (and the flood wait after it)
SlotSend(outcome) ==
  /\ sched.pc = "send"
  /\ HistoryRows(promo_history) < MaxSends
  /\ sched' = [sched EXCEPT !.pc = "record",
                            !.status = IF outcome = "sent" THEN "sent" ELSE "failed",
                            !.details = IF outcome = "sent" THEN "none" ELSE outcome]
  /\ UNCHANGED <<now_day, now_tick, promo_schedule, promo_groups, promo_messages,
                 promo_history, promo_paused, promo_slot_last_day,
                 promo_schedule_event, resumed_since_start, restarts, ops>>
  /\ UNCHANGED <<bcastVars, scrapeVars>>

\* _record_promo_history_sync
_record_promo_history_sync(hist, day_key, slot, g, status, details) ==
  [hist EXCEPT ![<<day_key, slot, g>>] =
     Append(@, [status |-> status, details |-> details])]

\* _update_group_send_stats_sync
_update_group_send_stats_sync(groups, g, status) ==
  [groups EXCEPT ![g].last_status = status]

\* _run_promo_slot, _record_promo_result and the end of one turn of the loop
SlotRecord ==
  /\ sched.pc = "record"
  /\ LET g == sched.pending[sched.idx]
         marked == [promo_slot_last_day EXCEPT ![sched.entry.slot] = sched.day_key]
     IN /\ promo_history' = _record_promo_history_sync(promo_history, sched.day_key,
                              sched.entry.slot, g, sched.status, sched.details)
        /\ promo_groups' = _update_group_send_stats_sync(promo_groups, g, sched.status)
        /\ IF sched.idx < Len(sched.pending)
             THEN /\ sched' = [sched EXCEPT !.pc = "send", !.idx = @ + 1,
                                            !.status = "none", !.details = "none"]
                  /\ UNCHANGED promo_slot_last_day
             ELSE Resume_Plan(sched.rest, marked, sched.now, sched.day_key)
  /\ UNCHANGED <<now_day, now_tick, promo_schedule, promo_messages, promo_paused,
                 promo_schedule_event, resumed_since_start, restarts, ops>>
  /\ UNCHANGED <<bcastVars, scrapeVars>>

\* a loop that ends with the iteration that failed
IterFailsAndStops(recorded) ==
  /\ sched.pc \in {"start", "fetch", "record"}
  /\ recorded => sched.pc = "record"
  /\ promo_history' =
       IF recorded
       THEN _record_promo_history_sync(promo_history, sched.day_key, sched.entry.slot,
                                       sched.pending[sched.idx], sched.status, sched.details)
       ELSE promo_history
  /\ sched' = SchedIdle("stopped")
  /\ UNCHANGED <<now_day, now_tick, promo_schedule, promo_groups, promo_messages,
                 promo_paused, promo_slot_last_day, promo_schedule_event,
                 resumed_since_start, restarts, ops>>
  /\ UNCHANGED <<bcastVars, scrapeVars>>

\* promo_scheduler_loop, "except Exception": an exception leaves
\* _promo_scheduler_iteration (a read of the store or client.connect fails,
\* or _record_promo_result fails before or after its history row is written);
\* it is logged and the loop goes on to its wait
IterFails(recorded) ==
  /\ sched.pc \in {"start", "fetch", "record"}
  /\ recorded => sched.pc = "record"
  /\ promo_history' =
       IF recorded
       THEN _record_promo_history_sync(promo_history, sched.day_key, sched.entry.slot,
                                       sched.pending[sched.idx], sched.status, sched.details)
       ELSE promo_history
  /\ sched' = SchedIdle("wait")
  /\ UNCHANGED <<now_day, now_tick, promo_schedule, promo_groups, promo_messages,
                 promo_paused, promo_slot_last_day, promo_schedule_event,
                 resumed_since_start, restarts, ops>>
  /\ UNCHANGED <<bcastVars, scrapeVars>>

\* promo_scheduler_loop: the wait ends because the event is set
SchedWake ==
  /\ sched.pc = "wait"
  /\ promo_schedule_event
  /\ promo_schedule_event' = FALSE
  /\ sched' = SchedIdle("start")
  /\ UNCHANGED <<now_day, now_tick, promo_schedule, promo_groups, promo_messages,
                 promo_history, promo_paused, promo_slot_last_day,
                 resumed_since_start, restarts, ops>>
  /\ UNCHANGED <<bcastVars, scrapeVars>>

\* promo_scheduler_loop: the wait ends with asyncio.TimeoutError
SchedTimeout ==
  /\ sched.pc = "wait"
  /\ ~promo_schedule_event
  /\ sched' = SchedIdle("start")
  /\ UNCHANGED <<now_day, now_tick, promo_schedule, promo_groups, promo_messages,
                 promo_history, promo_paused, promo_slot_last_day,
                 promo_schedule_event, resumed_since_start, restarts, ops>>
  /\ UNCHANGED <<bcastVars, scrapeVars>>

----------------------------------------------------------------------------
(***************************************************************************)
(* Promo control operations and the environment.                           *)
(***************************************************************************)

\* a signal that withdraws the one that is pending
TriggerToggles(ev) == ~ev

\* _trigger_promo_scheduler_check
_trigger_promo_scheduler_check(ev) == IF ~ev THEN TRUE ELSE ev

\* promo_pause
promo_pause ==
  /\ ops < MaxOps
  /\ ops' = ops + 1
  /\ promo_paused' = TRUE
  /\ UNCHANGED <<now_day, now_tick, promo_schedule, promo_groups, promo_messages,
                 promo_history, promo_slot_last_day, promo_schedule_event, sched,
                 resumed_since_start, restarts>>
  /\ UNCHANGED <<bcastVars, scrapeVars>>

\* promo_resume
promo_resume ==
  /\ ops < MaxOps
  /\ ops' = ops + 1
  /\ promo_paused' = FALSE
  /\ promo_schedule_event' = _trigger_promo_scheduler_check(promo_schedule_event)
  /\ resumed_since_start' = TRUE
  /\ UNCHANGED <<now_day, now_tick, promo_schedule, promo_groups, promo_messages,
                 promo_history, promo_slot_last_day, sched, restarts>>
  /\ UNCHANGED <<bcastVars, scrapeVars>>

\* update_promo_schedule
update_promo_schedule(slot, t) ==
  /\ ops < MaxOps
  /\ ops' = ops + 1
  /\ promo_schedule' = [promo_schedule EXCEPT ![slot] = t]
  /\ promo_schedule_event' = _trigger_promo_scheduler_check(promo_schedule_event)
  /\ UNCHANGED <<now_day, now_tick, promo_groups, promo_messages, promo_history,
                 promo_paused, promo_slot_last_day, sched, resumed_since_start,
                 restarts>>
  /\ UNCHANGED <<bcastVars, scrapeVars>>

\* create_promo_message
create_promo_message ==
  /\ ops < MaxOps
  /\ ops' = ops + 1
  /\ promo_messages = 0
  /\ promo_messages' = 1
  /\ promo_schedule_event' = _trigger_promo_scheduler_check(promo_schedule_event)
  /\ UNCHANGED <<now_day, now_tick, promo_schedule, promo_groups, promo_history,
                 promo_paused, promo_slot_last_day, sched, resumed_since_start,
                 restarts>>
  /\ UNCHANGED <<bcastVars, scrapeVars>>

\* delete_promo_message
delete_promo_message ==
  /\ ops < MaxOps
  /\ ops' = ops + 1
  /\ promo_messages > 0
  /\ promo_messages' = promo_messages - 1
  /\ promo_schedule_event' = _trigger_promo_scheduler_check(promo_schedule_event)
  /\ UNCHANGED <<now_day, now_tick, promo_schedule, promo_groups, promo_history,
                 promo_paused, promo_slot_last_day, sched, resumed_since_start,
                 restarts>>
  /\ UNCHANGED <<bcastVars, scrapeVars>>

\* ensure_promo_groups_synced / _sync_promo_groups_from_folder with the
\* folder holding the peers "observed"
ensure_promo_groups_synced(observed) ==
  /\ ops < MaxOps
  /\ ops' = ops + 1
  /\ promo_groups' = _apply_promo_group_records_sync(promo_groups, observed)
  /\ UNCHANGED <<now_day, now_tick, promo_schedule, promo_messages, promo_history,
                 promo_paused, promo_slot_last_day, promo_schedule_event, sched,
                 resumed_since_start, restarts>>
  /\ UNCHANGED <<bcastVars, scrapeVars>>

\* the wall clock advances within the day
Tick ==
  /\ now_tick + 1 < TicksPerDay
  /\ now_tick' = now_tick + 1
  /\ now_day' = now_day
  /\ UNCHANGED <<promo_schedule, promo_groups, promo_messages, promo_history,
                 promo_paused, promo_slot_last_day, promo_schedule_event, sched,
                 resumed_since_start, restarts, ops>>
  /\ UNCHANGED <<bcastVars, scrapeVars>>

\* the wall clock passes midnight: the day-key changes
NextDay ==
  /\ now_tick + 1 = TicksPerDay
  /\ now_day < MaxDay
  /\ now_day' = now_day + 1
  /\ now_tick' = 0
  /\ UNCHANGED <<promo_schedule, promo_groups, promo_messages, promo_history,
                 promo_paused, promo_slot_last_day, promo_schedule_event, sched,
                 resumed_since_start, restarts, ops>>
  /\ UNCHANGED <<bcastVars, scrapeVars>>

\* a start-up that keeps the pause flag of the previous run
StartupKeepsPause(before) == before

\* on_startup: promo_paused = True, whatever it was
StartupPaused(before) == TRUE

\* the process stops and starts again: module globals are re-initialised and
\* on_startup runs; the tables of the database persist
on_startup(observed) ==
  /\ ops < MaxOps
  /\ ops' = ops + 1
  /\ restarts' = restarts + 1
  /\ promo_paused' = StartupPaused(promo_paused)
  /\ promo_slot_last_day' = EmptyCache
  /\ promo_schedule_event' = FALSE
  /\ promo_groups' = _apply_promo_group_records_sync(promo_groups, observed)
  /\ sched' = SchedIdle("start")
  /\ resumed_since_start' = FALSE
  /\ UNCHANGED <<now_day, now_tick, promo_schedule, promo_messages, promo_history>>
  /\ UNCHANGED <<bcastVars, scrapeVars>>


----------------------------------------------------------------------------
(***************************************************************************)
(* The broadcast engine.                                                   *)
(***************************************************************************)

MemberIds == 1..MaxMembers
NoTime == -1
BJobIds == 1..MaxBJobs
Terminal == {"done", "error", "cancelled"}

NoRow == [present |-> FALSE, last_broadcast_status |-> "null", is_hr |-> FALSE,
          source_chat |-> "none"]
NoJob == [status |-> "absent", total |-> 0, processed |-> 0, sent_success |-> 0,
          sent_failed |-> 0, finished_at |-> NoTime, cancel_requested |-> FALSE,
          message |-> "none", last_member_id |-> None,
          last_member_status |-> "none"]
NoTask == [pc |-> "none", recipients |-> <<>>, idx |-> 0, processed |-> 0,
           sent_success |-> 0, sent_failed |-> 0, status |-> "none", floods |-> 0]
IdleSubmit == [pc |-> "idle", recipients |-> <<>>, source_chat |-> "none",
               result |-> "none"]

RECURSIVE TakeWhere(_, _, _)
\* the ids 'from'..MaxMembers that are in Keep, at most 'limit' of them
TakeWhere(from, limit, Keep) ==
  IF from > MaxMembers \/ limit = 0 THEN <<>>
  ELSE IF from \in Keep THEN <<from>> \o TakeWhere(from + 1, limit - 1, Keep)
       ELSE TakeWhere(from + 1, limit, Keep)

\* the WHERE clause of _fetch_pending_broadcast_members_sync
PendingRow(row, source_chat) ==
  /\ row.present
  /\ row.last_broadcast_status = "null"
  /\ ~row.is_hr
  /\ (source_chat # "none" => row.source_chat = source_chat)

\* a query without the "last_broadcast_at IS NULL" condition
FetchAnyOutreach(tbl, limit, source_chat) ==
  LET ids == TakeWhere(1, IF limit = None THEN MaxMembers ELSE limit,
                       {m \in MemberIds : /\ tbl[m].present
                                          /\ ~tbl[m].is_hr
                                          /\ (source_chat # "none" =>
                                                tbl[m].source_chat = source_chat)})
  IN [i \in 1..Len(ids) |-> [id |-> ids[i], is_hr |-> tbl[ids[i]].is_hr]]

\* _fetch_pending_broadcast_members_sync: rows are added in id order, so
\* ORDER BY added_at is the order of the ids; limit None is "no limit"
_fetch_pending_broadcast_members_sync(tbl, limit, source_chat) ==
  LET ids == TakeWhere(1, IF limit = None THEN MaxMembers ELSE limit,
                       {m \in MemberIds : PendingRow(tbl[m], source_chat)})
  IN [i \in 1..Len(ids) |-> [id |-> ids[i], is_hr |-> tbl[ids[i]].is_hr]]

\* the job id drawn by uuid.uuid4(): one that is not in use
FreshBJob == CHOOSE j \in BJobIds : \A k \in BJobIds : BROADCAST_JOBS[k].status # "absent" => k < j

\* a submission that flags the running job before it reads the recipients
FetchAfterSupersede(limit, source_chat) ==
  /\ ops < MaxOps
  /\ ops' = ops + 1
  /\ bsubmit.pc = "idle"
  /\ \E j \in BJobIds : BROADCAST_JOBS[j].status = "absent"
  /\ LET recipients == _fetch_pending_broadcast_members_sync(members, limit, source_chat)
     IN bsubmit' = IF recipients = <<>>
                   THEN [IdleSubmit EXCEPT !.result = "400"]
                   ELSE [pc |-> "fetched", recipients |-> recipients,
                         source_chat |-> source_chat, result |-> "none"]
  /\ BROADCAST_JOBS' =
       [j \in BJobIds |->
          IF j = current_broadcast_job_id /\ BROADCAST_JOBS[j].status = "running"
          THEN [BROADCAST_JOBS[j] EXCEPT !.cancel_requested = TRUE,
                                         !.message = "Superseded by a new broadcast."]
          ELSE BROADCAST_JOBS[j]]
  /\ UNCHANGED <<promoVars, scrapeVars, members, broadcast_history,
                 current_broadcast_job_id, btask>>

\* send_start, up to the read of the recipients
send_start_fetch(limit, source_chat) ==
  /\ ops < MaxOps
  /\ ops' = ops + 1
  /\ bsubmit.pc = "idle"
  /\ \E j \in BJobIds : BROADCAST_JOBS[j].status = "absent"
  /\ LET recipients == _fetch_pending_broadcast_members_sync(members, limit, source_chat)
     IN bsubmit' = IF recipients = <<>>
                   THEN [IdleSubmit EXCEPT !.result = "400"]
                   ELSE [pc |-> "fetched", recipients |-> recipients,
                         source_chat |-> source_chat, result |-> "none"]
  /\ UNCHANGED <<promoVars, scrapeVars, members, broadcast_history, BROADCAST_JOBS,
                 current_broadcast_job_id, btask>>

\* a submission that leaves the running job alone
SupersedeNothing(jobs, cur) == jobs

\* send_start: the previous job is flagged before the new record is created
Supersede(jobs, cur) ==
  IF cur # None /\ jobs[cur].status = "running"
  THEN [jobs EXCEPT ![cur].cancel_requested = TRUE,
                    ![cur].message = "Superseded by a new broadcast."]
  ELSE jobs

\* send_start, from the critical section to the response
send_start_create ==
  /\ bsubmit.pc = "fetched"
  /\ LET job_id == FreshBJob
         flagged == Supersede(BROADCAST_JOBS, current_broadcast_job_id)
     IN /\ BROADCAST_JOBS' = [flagged EXCEPT ![job_id] =
               [NoJob EXCEPT !.status = "running", !.total = Len(bsubmit.recipients)]]
        /\ current_broadcast_job_id' = job_id
        /\ btask' = [btask EXCEPT ![job_id] =
               [NoTask EXCEPT !.pc = "top", !.recipients = bsubmit.recipients, !.idx = 1]]
        /\ bsubmit' = [IdleSubmit EXCEPT !.result = "started"]
  /\ UNCHANGED <<ops, promoVars, scrapeVars, members, broadcast_history>>

\* a cancellation request that flags a job whatever its status
SendStopFlagsFinished(job_id) ==
  /\ ops < MaxOps
  /\ ops' = ops + 1
  /\ BROADCAST_JOBS[job_id].status # "absent"
  /\ ~(BROADCAST_JOBS[job_id].cancel_requested
       /\ BROADCAST_JOBS[job_id].message = "Cancellation requested by user.")
  /\ BROADCAST_JOBS' = [BROADCAST_JOBS EXCEPT
        ![job_id].cancel_requested = TRUE,
        ![job_id].message = "Cancellation requested by user."]
  /\ UNCHANGED <<promoVars, scrapeVars, members, broadcast_history, current_broadcast_job_id,
                 btask, bsubmit>>

\* send_stop; a request for a job that is not running returns its status
send_stop(job_id) ==
  /\ ops < MaxOps
  /\ ops' = ops + 1
  /\ BROADCAST_JOBS[job_id].status # "absent"
  /\ IF BROADCAST_JOBS[job_id].status # "running"
     THEN UNCHANGED BROADCAST_JOBS
     ELSE /\ ~(BROADCAST_JOBS[job_id].cancel_requested
               /\ BROADCAST_JOBS[job_id].message = "Cancellation requested by user.")
          /\ BROADCAST_JOBS' = [BROADCAST_JOBS EXCEPT
                ![job_id].cancel_requested = TRUE,
                ![job_id].message = "Cancellation requested by user."]
  /\ UNCHANGED <<promoVars, scrapeVars, members, broadcast_history, current_broadcast_job_id,
                 btask, bsubmit>>

\* a progress update that leaves out the processed count
UpdateWithoutProcessed(jobs, job_id, t, member_id, status) ==
  IF jobs[job_id].status = "absent" THEN jobs
  ELSE [jobs EXCEPT ![job_id].sent_success = t.sent_success,
                    ![job_id].sent_failed = t.sent_failed,
                    ![job_id].last_member_id = member_id,
                    ![job_id].last_member_status = status]

\* _update_broadcast_job for the progress fields
_update_broadcast_job(jobs, job_id, t, member_id, status) ==
  IF jobs[job_id].status = "absent" THEN jobs
  ELSE [jobs EXCEPT ![job_id].processed = t.processed,
                    ![job_id].sent_success = t.sent_success,
                    ![job_id].sent_failed = t.sent_failed,
                    ![job_id].last_member_id = member_id,
                    ![job_id].last_member_status = status]

\* broadcast_users: the head of "for member in recipients"
BTop(j) ==
  /\ btask[j].pc = "top"
  /\ LET t == btask[j] IN
     IF t.idx > Len(t.recipients) \/ BROADCAST_JOBS[j].cancel_requested
       THEN /\ btask' = [btask EXCEPT ![j].pc = "final"]
            /\ UNCHANGED BROADCAST_JOBS
     ELSE IF t.recipients[t.idx].is_hr
       THEN /\ btask' = [btask EXCEPT ![j].processed = @ + 1, ![j].idx = @ + 1]
            /\ BROADCAST_JOBS' =
                 [BROADCAST_JOBS EXCEPT ![j].processed = t.processed + 1,
                                        ![j].last_member_id = t.recipients[t.idx].id,
                                        ![j].last_member_status = "skipped_hr"]
     ELSE /\ btask' = [btask EXCEPT ![j].pc = "sending", ![j].status = "skipped"]
          /\ UNCHANGED BROADCAST_JOBS
  /\ UNCHANGED <<ops, promoVars, scrapeVars, members, broadcast_history, current_broadcast_job_id,
                 bsubmit>>

BSendOutcomes == {"sent", "flood_wait", "rpc_error"}

\* a retry loop that does the bookkeeping of the recipient on every pass,
\* the rate-limited ones included
BSendMarksOnFlood(j, outcome) ==
  /\ btask[j].pc = "sending"
  /\ outcome = "flood_wait" => btask[j].floods < MaxFloods
  /\ btask' = [btask EXCEPT ![j] =
       CASE outcome = "sent" ->
              [@ EXCEPT !.pc = "mark", !.sent_success = @ + 1, !.status = "sent"]
         [] outcome = "flood_wait" ->
              [@ EXCEPT !.floods = @ + 1]
         [] outcome = "rpc_error" ->
              [@ EXCEPT !.pc = "mark", !.sent_failed = @ + 1, !.status = "rpc_error"]]
  /\ LET m == btask[j].recipients[btask[j].idx].id
     IN IF outcome = "flood_wait"
        THEN /\ members' = [members EXCEPT ![m].last_broadcast_status = "flood_wait"]
             /\ broadcast_history' =
                  [broadcast_history EXCEPT ![<<j, m>>] = Append(@, "flood_wait")]
        ELSE UNCHANGED <<members, broadcast_history>>
  /\ UNCHANGED <<ops, promoVars, scrapeVars, BROADCAST_JOBS,
                 current_broadcast_job_id, bsubmit>>

\* a send loop that takes a rate limit for a failure of the recipient
BSendFloodFails(j, outcome) ==
  /\ btask[j].pc = "sending"
  /\ outcome = "flood_wait" => btask[j].floods < MaxFloods
  /\ btask' = [btask EXCEPT ![j] =
       CASE outcome = "sent" ->
              [@ EXCEPT !.pc = "mark", !.sent_success = @ + 1, !.status = "sent"]
         [] outcome = "flood_wait" ->
              [@ EXCEPT !.pc = "mark", !.floods = @ + 1, !.sent_failed = @ + 1,
                        !.status = "flood_wait"]
         [] outcome = "rpc_error" ->
              [@ EXCEPT !.pc = "mark", !.sent_failed = @ + 1, !.status = "rpc_error"]]
  /\ UNCHANGED <<ops, promoVars, scrapeVars, members, broadcast_history, BROADCAST_JOBS,
                 current_broadcast_job_id, bsubmit>>

\* broadcast_users: "while True: try: await client.send_message(...)"
BSend(j, outcome) ==
  /\ btask[j].pc = "sending"
  /\ outcome = "flood_wait" => btask[j].floods < MaxFloods
  /\ btask' = [btask EXCEPT ![j] =
       CASE outcome = "sent" ->
              [@ EXCEPT !.pc = "mark", !.sent_success = @ + 1, !.status = "sent"]
         [] outcome = "flood_wait" ->
              [@ EXCEPT !.floods = @ + 1]
         [] outcome = "rpc_error" ->
              [@ EXCEPT !.pc = "mark", !.sent_failed = @ + 1, !.status = "rpc_error"]]
  /\ UNCHANGED <<ops, promoVars, scrapeVars, members, broadcast_history, BROADCAST_JOBS,
                 current_broadcast_job_id, bsubmit>>

\* _mark_member_broadcast_status_sync
_mark_member_broadcast_status_sync(tbl, member_id, status) ==
  IF tbl[member_id].present
  THEN [tbl EXCEPT ![member_id].last_broadcast_status = status]
  ELSE tbl

\* _insert_broadcast_log_sync
_insert_broadcast_log_sync(log, job_id, member_id, status) ==
  [log EXCEPT ![<<job_id, member_id>>] = Append(@, status)]

\* a bookkeeping without the second look at the cancellation flag
BMarkIgnoresCancel(j) ==
  /\ btask[j].pc = "mark"
  /\ LET t == [btask[j] EXCEPT !.processed = @ + 1]
         m == t.recipients[t.idx].id
     IN /\ members' = _mark_member_broadcast_status_sync(members, m, t.status)
        /\ broadcast_history' = _insert_broadcast_log_sync(broadcast_history, j, m, t.status)
        /\ BROADCAST_JOBS' = _update_broadcast_job(BROADCAST_JOBS, j, t, m, t.status)
        /\ btask' = [btask EXCEPT ![j] = [t EXCEPT !.pc = "top", !.idx = @ + 1]]
  /\ UNCHANGED <<ops, promoVars, scrapeVars, current_broadcast_job_id, bsubmit>>

\* a bookkeeping that stamps the member and counts it but writes no log row
BMarkWithoutLog(j) ==
  /\ btask[j].pc = "mark"
  /\ LET t == [btask[j] EXCEPT !.processed = @ + 1]
         m == t.recipients[t.idx].id
     IN /\ members' = _mark_member_broadcast_status_sync(members, m, t.status)
        /\ BROADCAST_JOBS' = _update_broadcast_job(BROADCAST_JOBS, j, t, m, t.status)
        /\ btask' = [btask EXCEPT ![j] =
             IF BROADCAST_JOBS[j].cancel_requested
             THEN [t EXCEPT !.pc = "final"]
             ELSE [t EXCEPT !.pc = "top", !.idx = @ + 1]]
  /\ UNCHANGED <<ops, promoVars, scrapeVars, broadcast_history,
                 current_broadcast_job_id, bsubmit>>

\* broadcast_users: the bookkeeping after the send and the second
\* cancellation check
BMark(j) ==
  /\ btask[j].pc = "mark"
  /\ LET t == [btask[j] EXCEPT !.processed = @ + 1]
         m == t.recipients[t.idx].id
     IN /\ members' = _mark_member_broadcast_status_sync(members, m, t.status)
        /\ broadcast_history' = _insert_broadcast_log_sync(broadcast_history, j, m, t.status)
        /\ BROADCAST_JOBS' = _update_broadcast_job(BROADCAST_JOBS, j, t, m, t.status)
        /\ btask' = [btask EXCEPT ![j] =
             IF BROADCAST_JOBS[j].cancel_requested
             THEN [t EXCEPT !.pc = "final"]
             ELSE [t EXCEPT !.pc = "top", !.idx = @ + 1]]
  /\ UNCHANGED <<ops, promoVars, scrapeVars, current_broadcast_job_id, bsubmit>>

\* broadcast_users: the bookkeeping raises (sqlite3.Error), either in
\* _mark_member_broadcast_status_sync or, the member being marked, in
\* _insert_broadcast_log_sync; "except Exception" and "finally" follow
BMarkFails(j, marked) ==
  /\ btask[j].pc = "mark"
  /\ LET m == btask[j].recipients[btask[j].idx].id
     IN members' = IF marked
                   THEN _mark_member_broadcast_status_sync(members, m, btask[j].status)
                   ELSE members
  /\ BROADCAST_JOBS' = [BROADCAST_JOBS EXCEPT
        ![j].status = "error",
        ![j].finished_at = clock,
        ![j].message = "database error"]
  /\ current_broadcast_job_id' =
       IF current_broadcast_job_id = j THEN None ELSE current_broadcast_job_id
  /\ btask' = [btask EXCEPT ![j].pc = "ended", ![j].processed = @ + 1]
  /\ UNCHANGED <<ops, promoVars, scrapeVars, broadcast_history, bsubmit>>

\* a function in which both names are bound: the update goes to SCRAPE_JOBS
NamesBound == TRUE

\* broadcast_users, lines 1920-1931: the names job_members and processed_total
\* are not bound in this function, so evaluating the arguments of _update_job
\* raises NameError before any update is made
FinalNamesBound == FALSE

\* broadcast_users: the status the task leaves in its record.  status_value
\* is read from SCRAPE_JOBS, which never holds a broadcast job id; _update_job
\* would update SCRAPE_JOBS, so on that path the record is not changed
BroadcastFinalStatus(job) ==
  IF FinalNamesBound THEN job.status ELSE "error"

\* broadcast_users: the end of the task ("except" and "finally" included)
BFinal(j) ==
  /\ btask[j].pc = "final"
  /\ BROADCAST_JOBS' = [BROADCAST_JOBS EXCEPT
        ![j].status = BroadcastFinalStatus(BROADCAST_JOBS[j]),
        ![j].finished_at = IF FinalNamesBound THEN @ ELSE clock,
        ![j].message = IF FinalNamesBound THEN @
                       ELSE "name 'job_members' is not defined"]
  /\ current_broadcast_job_id' =
       IF current_broadcast_job_id = j THEN None ELSE current_broadcast_job_id
  /\ btask' = [btask EXCEPT ![j].pc = "ended"]
  /\ UNCHANGED <<ops, promoVars, scrapeVars, members, broadcast_history, bsubmit>>

BStep(j) ==
  \/ BTop(j)
  \/ \E o \in BSendOutcomes : BSend(j, o)
  \/ BMark(j)
  \/ \E marked \in BOOLEAN : BMarkFails(j, marked)
  \/ BFinal(j)

\* the broadcast engine before any send_start, over an empty members table
IdleBroadcast ==
  /\ members = [m \in MemberIds |-> NoRow]
  /\ broadcast_history = [k \in BJobIds \X MemberIds |-> <<>>]
  /\ BROADCAST_JOBS = [j \in BJobIds |-> NoJob]
  /\ current_broadcast_job_id = None
  /\ btask = [j \in BJobIds |-> NoTask]
  /\ bsubmit = IdleSubmit

\* the provenance tag of the collection run that stored member m
SourceOf(m) == IF m % 2 = 1 THEN "a" ELSE "b"

InitBroadcast ==
  /\ members \in {tbl \in [MemberIds -> {[present |-> TRUE, last_broadcast_status |-> l,
                                           is_hr |-> h, source_chat |-> c] :
                        l \in {"null", "sent"}, h \in BOOLEAN, c \in {"a", "b"}}] :
                    \A m \in MemberIds : tbl[m].source_chat = SourceOf(m)}
  /\ broadcast_history = [k \in BJobIds \X MemberIds |-> <<>>]
  /\ BROADCAST_JOBS = [j \in BJobIds |-> NoJob]
  /\ current_broadcast_job_id = None
  /\ btask = [j \in BJobIds |-> NoTask]
  /\ bsubmit = IdleSubmit

NextBroadcast ==
  \/ \E limit \in {None, 1}, src \in {"none", "a"} : send_start_fetch(limit, src)
  \/ send_start_create
  \/ \E j \in BJobIds : send_stop(j)
  \/ \E j \in BJobIds : BTop(j)
  \/ \E j \in BJobIds, o \in BSendOutcomes : BSend(j, o)
  \/ \E j \in BJobIds : BMark(j)
  \/ \E j \in BJobIds, marked \in BOOLEAN : BMarkFails(j, marked)
  \/ \E j \in BJobIds : BFinal(j)


----------------------------------------------------------------------------
(***************************************************************************)
(* The collection engine.                                                  *)
(***************************************************************************)

SJobIds == 1..MaxSJobs
Chats == {"a", "b"}

NoScrapeJob == [status |-> "absent", total |-> 0, processed |-> 0,
                finished_at |-> NoTime, error |-> "none", csv_path |-> "none",
                cancel_requested |-> FALSE, message |-> "none"]
NoSTask == [pc |-> "none", chat |-> "none", roster |-> <<>>, pos |-> 0,
            existing_ids |-> {}, ids_at_start |-> {}, processed_total |-> 0,
            job_members |-> <<>>, processed_in_chunk |-> 0, floods |-> 0,
            csv_path |-> "none", stopped_by |-> "none"]
\* a task that has returned: its locals are gone
EndedSTask == [NoSTask EXCEPT !.pc = "ended"]
NoFile == [exists |-> FALSE, job |-> None, members |-> <<>>]

\* the member lists a chat can yield: iter_participants is finite and may
\* yield the same user more than once
RECURSIVE SeqsUpTo(_, _)
SeqsUpTo(S, n) ==
  IF n = 0 THEN {<<>>}
  ELSE LET shorter == SeqsUpTo(S, n - 1)
       IN shorter \cup {Append(q, x) : q \in {r \in shorter : Len(r) = n - 1}, x \in S}

Rosters == SeqsUpTo(MemberIds, MaxYield)

\* a snapshot that finds the Store empty
FetchExistingNone(tbl) == {}

\* _fetch_existing_ids_sync
_fetch_existing_ids_sync(tbl) == {m \in MemberIds : tbl[m].present}

\* _update_job
_update_job(jobs, job_id, delta) ==
  IF jobs[job_id].status = "absent" THEN jobs
  ELSE [jobs EXCEPT ![job_id] =
          [f \in DOMAIN @ |-> IF f \in DOMAIN delta THEN delta[f] ELSE @[f]]]

\* JOB_RETENTION_SECONDS
JOB_RETENTION_SECONDS == 3600

\* _current_iso: "datetime.now(UTC_TZ).isoformat()" writes the offset, and
\* _parse_iso keeps it: a stored finished_at is an offset-aware datetime
CurrentIsoAware == TRUE

\* cleanup_finished_jobs: "cutoff = datetime.utcnow() - timedelta(...)" is
\* an offset-naive datetime
CutoffAware == FALSE

\* cleanup_finished_jobs: the jobs whose finished_at reaches the comparison
\* "finished_dt < cutoff"
ComparedJobs(jobs) == {j \in SJobIds : /\ jobs[j].status \in {"done", "error"}
                                       /\ jobs[j].finished_at # NoTime}

\* cleanup_finished_jobs: "<" between an offset-aware and an offset-naive
\* datetime raises TypeError, which leaves the coroutine and its caller
CleanupRaises(jobs) == CurrentIsoAware # CutoffAware /\ ComparedJobs(jobs) # {}

\* an eviction that drops the jobs that have not finished
CleanupDropsUnfinished(jobs, now) ==
  [j \in SJobIds |-> IF jobs[j].status \in {"done", "error"} THEN jobs[j]
                     ELSE NoScrapeJob]

\* cleanup_finished_jobs when no comparison raises: only SCRAPE_JOBS is
\* scanned, and only the statuses "done" and "error" are treated as finished
cleanup_finished_jobs(jobs, now) ==
  LET cutoff == now - JOB_RETENTION_SECONDS
      stale_ids == {j \in SJobIds : /\ jobs[j].status \in {"done", "error"}
                                    /\ jobs[j].finished_at # NoTime
                                    /\ jobs[j].finished_at < cutoff}
  IN [j \in SJobIds |-> IF j \in stale_ids THEN NoScrapeJob ELSE jobs[j]]

\* the job id drawn by uuid.uuid4(): one that was never used
FreshSJob == CHOOSE j \in SJobIds : stask[j].pc = "none" /\
                 \A k \in SJobIds : stask[k].pc = "none" => j <= k

\* scrape
scrape(chat_value) ==
  /\ ops < MaxOps
  /\ ops' = ops + 1
  /\ \E j \in SJobIds : stask[j].pc = "none"
  /\ IF CleanupRaises(SCRAPE_JOBS)
     THEN UNCHANGED <<SCRAPE_JOBS, stask>>
     ELSE LET job_id == FreshSJob
              cleaned == cleanup_finished_jobs(SCRAPE_JOBS, clock)
          IN /\ SCRAPE_JOBS' = [cleaned EXCEPT ![job_id] =
                    [NoScrapeJob EXCEPT !.status = "running"]]
             /\ stask' = [stask EXCEPT ![job_id] =
                    [NoSTask EXCEPT !.pc = "lock", !.chat = chat_value]]
  /\ UNCHANGED <<promoVars, bcastVars, scrape_lock, exports, clock, reply>>

\* scrape_stop; a request for a finished job returns its status
scrape_stop(job_id) ==
  /\ ops < MaxOps
  /\ ops' = ops + 1
  /\ SCRAPE_JOBS[job_id].status # "absent"
  /\ IF SCRAPE_JOBS[job_id].status \in {"done", "error", "cancelled"}
     THEN UNCHANGED SCRAPE_JOBS
     ELSE /\ ~SCRAPE_JOBS[job_id].cancel_requested
          /\ SCRAPE_JOBS' = [SCRAPE_JOBS EXCEPT
                ![job_id].cancel_requested = TRUE,
                ![job_id].message = "Cancellation requested by user."]
  /\ UNCHANGED <<promoVars, bcastVars, scrape_lock, stask, exports, clock, reply>>

\* a failure that leaves the task without a word in the record
ScrapeFailedSilently(jobs, j, t) == jobs

\* scrape_users, "except Exception": the record of a failed job.  csv_path
\* is kept when a file of that name exists, whoever wrote it
ScrapeFailed(jobs, j, t) ==
  _update_job(jobs, j,
    [status |-> "error", error |-> "error", finished_at |-> clock,
     processed |-> t.processed_total, total |-> Len(t.job_members),
     csv_path |-> IF t.csv_path # "none" /\ exports[t.csv_path].exists
                  THEN t.csv_path ELSE "none"])

\* a task that enters the block without waiting for the lock
AcquireWithoutLock(j) ==
  /\ stask[j].pc = "lock"
  /\ LET existing == _fetch_existing_ids_sync(members)
     IN /\ scrape_lock' = j
        /\ SCRAPE_JOBS' = _update_job(SCRAPE_JOBS, j,
               [total |-> 0, processed |-> 0, cancel_requested |-> FALSE])
        /\ stask' = [stask EXCEPT ![j] =
               [@ EXCEPT !.pc = "resolve", !.existing_ids = existing,
                         !.ids_at_start = existing]]
  /\ UNCHANGED <<ops, promoVars, bcastVars, exports, clock, reply>>

\* scrape_users, from "async with scrape_lock" to "await client.get_entity".
\* Each task reaches the lock without suspending and asyncio.Lock serves its
\* waiters first come first served, so the lock is taken in order of submission
STaskAcquire(j) ==
  /\ stask[j].pc = "lock"
  /\ scrape_lock = None
  /\ \A k \in SJobIds : k < j => stask[k].pc # "lock"
  /\ LET existing == _fetch_existing_ids_sync(members)
     IN /\ scrape_lock' = j
        /\ SCRAPE_JOBS' = _update_job(SCRAPE_JOBS, j,
               [total |-> 0, processed |-> 0, cancel_requested |-> FALSE])
        /\ stask' = [stask EXCEPT ![j] =
               [@ EXCEPT !.pc = "resolve", !.existing_ids = existing,
                         !.ids_at_start = existing]]
  /\ UNCHANGED <<ops, promoVars, bcastVars, exports, clock, reply>>

\* scrape_users, from the return of client.get_entity to the creation of the
\* iterator; get_entity may raise
STaskResolve(j, roster, ok) ==
  /\ stask[j].pc = "resolve"
  /\ IF ok
     THEN /\ stask' = [stask EXCEPT ![j] =
               [@ EXCEPT !.pc = "iter", !.roster = roster,
                         !.csv_path = stask[j].chat]]
          /\ UNCHANGED <<SCRAPE_JOBS, scrape_lock>>
     ELSE /\ roster = <<>>
          /\ scrape_lock' = None
          /\ SCRAPE_JOBS' = ScrapeFailed(SCRAPE_JOBS, j, stask[j])
          /\ stask' = [stask EXCEPT ![j] = EndedSTask]
  /\ UNCHANGED <<ops, promoVars, bcastVars, exports, clock, reply>>

\* a checkpoint that never sees the flag
CancelNeverObserved(job) == FALSE

\* scrape_users: the cancellation checkpoint
CancelObserved(job) == job.cancel_requested

\* a novelty test that takes every yielded user for new
IsNewAlways(user, existing_ids) == TRUE

\* scrape_users: "is_new = user.id not in existing_ids"
IsNew(user, existing_ids) == user \notin existing_ids

\* _insert_member_sync; the row of a user that _is_hr_candidate does not match
_insert_member_sync(tbl, user, source_chat) ==
  IF tbl[user].present
  THEN [tbl EXCEPT ![user].is_hr = FALSE, ![user].source_chat = source_chat]
  ELSE [tbl EXCEPT ![user] = [present |-> TRUE, last_broadcast_status |-> "null",
                              is_hr |-> FALSE, source_chat |-> source_chat]]

\* scrape_users: one turn of "while True" in which the iterator yields a user
STaskItem(j) ==
  /\ stask[j].pc = "iter"
  /\ stask[j].pos < Len(stask[j].roster)
  /\ LET t0 == stask[j]
         user == t0.roster[t0.pos + 1]
         t1 == [t0 EXCEPT !.pos = @ + 1, !.processed_total = @ + 1]
     IN IF CancelObserved(SCRAPE_JOBS[j])
        THEN /\ stask' = [stask EXCEPT ![j] = [t1 EXCEPT !.pc = "write",
                                                        !.stopped_by = "cancel"]]
             /\ UNCHANGED <<members, SCRAPE_JOBS>>
        ELSE LET is_new == IsNew(user, t1.existing_ids)
                 t2 == IF is_new
                       THEN [t1 EXCEPT !.job_members = Append(@, user),
                                       !.existing_ids = @ \cup {user},
                                       !.processed_in_chunk = @ + 1]
                       ELSE t1
                 upd == [processed |-> t2.processed_total,
                         total |-> Len(t2.job_members)]
                 byTotal == t2.processed_total % CHUNK_SIZE = 0
                 byChunk == t2.processed_in_chunk >= CHUNK_SIZE
             IN /\ members' = IF is_new THEN _insert_member_sync(members, user, t2.chat)
                              ELSE members
                /\ SCRAPE_JOBS' = IF byTotal \/ byChunk
                                  THEN _update_job(SCRAPE_JOBS, j, upd)
                                  ELSE SCRAPE_JOBS
                /\ stask' = [stask EXCEPT ![j] =
                     IF byChunk THEN [t2 EXCEPT !.processed_in_chunk = 0] ELSE t2]
  /\ UNCHANGED <<ops, promoVars, broadcast_history, BROADCAST_JOBS,
                 current_broadcast_job_id, btask, bsubmit, scrape_lock, exports, clock, reply>>

\* scrape_users: the iterator yields a new user and _insert_member_sync
\* raises (sqlite3.Error); the member was appended to job_members before
STaskInsertFails(j) ==
  /\ stask[j].pc = "iter"
  /\ stask[j].pos < Len(stask[j].roster)
  /\ ~CancelObserved(SCRAPE_JOBS[j])
  /\ IsNew(stask[j].roster[stask[j].pos + 1], stask[j].existing_ids)
  /\ LET t0 == stask[j]
         t1 == [t0 EXCEPT !.pos = @ + 1, !.processed_total = @ + 1,
                          !.job_members = Append(@, t0.roster[t0.pos + 1])]
     IN SCRAPE_JOBS' = ScrapeFailed(SCRAPE_JOBS, j, t1)
  /\ scrape_lock' = None
  /\ stask' = [stask EXCEPT ![j] = EndedSTask]
  /\ UNCHANGED <<ops, promoVars, bcastVars, exports, clock, reply>>

\* scrape_users: the iterator raises StopAsyncIteration
STaskStop(j) ==
  /\ stask[j].pc = "iter"
  /\ stask[j].pos = Len(stask[j].roster)
  /\ stask' = [stask EXCEPT ![j].pc = "write", ![j].stopped_by = "exhausted"]
  /\ UNCHANGED <<ops, promoVars, bcastVars, SCRAPE_JOBS, scrape_lock, exports, clock, reply>>

\* a rate limit after which the enumeration starts again from its first member
FloodRestartsIterator(j) ==
  /\ stask[j].pc = "iter"
  /\ stask[j].floods < MaxFloods
  /\ stask' = [stask EXCEPT ![j].floods = @ + 1, ![j].pos = 0]
  /\ UNCHANGED <<ops, promoVars, bcastVars, SCRAPE_JOBS, scrape_lock, exports, clock, reply>>

\* scrape_users: the iterator raises FloodWaitError; sleep and "continue"
STaskFlood(j) ==
  /\ stask[j].pc = "iter"
  /\ stask[j].floods < MaxFloods
  /\ stask' = [stask EXCEPT ![j].floods = @ + 1]
  /\ UNCHANGED <<ops, promoVars, bcastVars, SCRAPE_JOBS, scrape_lock, exports, clock, reply>>

\* an enumeration error after which the record forgets what was collected
ErrorDropsCollected(j) ==
  /\ stask[j].pc = "iter"
  /\ SCRAPE_JOBS' = _update_job(
        ScrapeFailed(SCRAPE_JOBS, j, [stask[j] EXCEPT !.job_members = <<>>]), j,
        [error |-> "Telegram RPC error"])
  /\ scrape_lock' = None
  /\ stask' = [stask EXCEPT ![j] = EndedSTask]
  /\ UNCHANGED <<ops, promoVars, bcastVars, exports, clock, reply>>

\* scrape_users: the iterator raises RPCError or another exception, which is
\* raised again as a RuntimeError with a text of its own
STaskError(j) ==
  /\ stask[j].pc = "iter"
  /\ SCRAPE_JOBS' = _update_job(ScrapeFailed(SCRAPE_JOBS, j, stask[j]), j,
                                [error |-> "Telegram RPC error"])
  /\ scrape_lock' = None
  /\ stask' = [stask EXCEPT ![j] = EndedSTask]
  /\ UNCHANGED <<ops, promoVars, bcastVars, exports, clock, reply>>

\* scrape_users: the status written after the loop has ended
ScrapeFinalStatus(job) == "done"

\* scrape_users, from _write_members_csv to the final _update_job
STaskWrite(j) ==
  /\ stask[j].pc = "write"
  /\ LET t == stask[j]
     IN /\ exports' = [exports EXCEPT ![t.csv_path] =
               [exists |-> TRUE, job |-> j, members |-> t.job_members]]
        /\ SCRAPE_JOBS' = _update_job(SCRAPE_JOBS, j,
               [status |-> ScrapeFinalStatus(SCRAPE_JOBS[j]),
                total |-> Len(t.job_members), processed |-> t.processed_total,
                finished_at |-> clock, error |-> "none", csv_path |-> t.csv_path])
        /\ scrape_lock' = None
        /\ stask' = [stask EXCEPT ![j] = EndedSTask]
  /\ UNCHANGED <<ops, promoVars, bcastVars, clock, reply>>

\* scrape_users: _write_members_csv or _write_export_metadata raises
\* (OSError); the file of that name exists afterwards when it existed before
\* or when the failure came after it was written
STaskWriteFails(j, written) ==
  /\ stask[j].pc = "write"
  /\ LET t == stask[j]
     IN /\ exports' = IF written
                      THEN [exports EXCEPT ![t.csv_path] =
                              [exists |-> TRUE, job |-> j, members |-> t.job_members]]
                      ELSE exports
        /\ SCRAPE_JOBS' = IF written
                          THEN _update_job(ScrapeFailed(SCRAPE_JOBS, j, t), j,
                                           [csv_path |-> t.csv_path])
                          ELSE ScrapeFailed(SCRAPE_JOBS, j, t)
  /\ scrape_lock' = None
  /\ stask' = [stask EXCEPT ![j] = EndedSTask]
  /\ UNCHANGED <<ops, promoVars, bcastVars, clock, reply>>

SStep(j) ==
  \/ STaskAcquire(j)
  \/ \E r \in Rosters, ok \in BOOLEAN : STaskResolve(j, r, ok)
  \/ STaskItem(j)
  \/ STaskStop(j)
  \/ STaskFlood(j)
  \/ STaskError(j)
  \/ STaskInsertFails(j)
  \/ STaskWrite(j)
  \/ \E written \in BOOLEAN : STaskWriteFails(j, written)

----------------------------------------------------------------------------
(***************************************************************************)
(* The status requests of the two registries and the passing of time.      *)
(***************************************************************************)

\* the clock moves in steps of a little more than a retention window
ClockStep == JOB_RETENTION_SECONDS + 1

\* time passes between two requests
AdvanceClock ==
  /\ clock < MaxClockSteps * ClockStep
  /\ clock' = clock + ClockStep
  /\ UNCHANGED <<ops, promoVars, bcastVars, SCRAPE_JOBS, scrape_lock, stask, exports, reply>>

NoReply == [op |-> "none", job_id |-> None, n |-> 0, code |-> 0, body |-> <<>>]

\* JobStatusResponse(job_id=job_id, **job): the keys of the record that are
\* not fields of the response model are dropped
JobStatusResponse(job_id, job) ==
  [job_id |-> job_id, status |-> job.status, total |-> job.total,
   processed |-> job.processed, finished_at |-> job.finished_at,
   error |-> job.error, csv_path |-> job.csv_path]

\* scrape_status; n numbers the request
scrape_status(job_id) ==
  /\ ops < MaxOps
  /\ ops' = ops + 1
  /\ IF CleanupRaises(SCRAPE_JOBS)
     THEN /\ reply' = [op |-> "scrape_status", job_id |-> job_id, n |-> ops',
                       code |-> 500, body |-> <<>>]
          /\ UNCHANGED SCRAPE_JOBS
     ELSE LET cleaned == cleanup_finished_jobs(SCRAPE_JOBS, clock)
              job == cleaned[job_id]
          IN /\ SCRAPE_JOBS' = cleaned
             /\ reply' = IF job.status = "absent"
                         THEN [op |-> "scrape_status", job_id |-> job_id, n |-> ops',
                               code |-> 404, body |-> <<>>]
                         ELSE [op |-> "scrape_status", job_id |-> job_id, n |-> ops',
                               code |-> 200, body |-> JobStatusResponse(job_id, job)]
  /\ UNCHANGED <<promoVars, bcastVars, scrape_lock, stask, exports, clock>>

\* send_status: the response is built field by field with job.get
BroadcastStatusResponse(job_id, job) ==
  [job_id |-> job_id, status |-> job.status, total |-> job.total,
   processed |-> job.processed, sent_success |-> job.sent_success,
   sent_failed |-> job.sent_failed, finished_at |-> job.finished_at,
   cancel_requested |-> job.cancel_requested, message |-> job.message]

\* send_status
send_status(job_id) ==
  /\ ops < MaxOps
  /\ ops' = ops + 1
  /\ LET job == BROADCAST_JOBS[job_id]
     IN reply' = IF job.status = "absent"
                 THEN [op |-> "send_status", job_id |-> job_id, n |-> ops',
                       code |-> 404, body |-> <<>>]
                 ELSE [op |-> "send_status", job_id |-> job_id, n |-> ops',
                       code |-> 200, body |-> BroadcastStatusResponse(job_id, job)]
  /\ UNCHANGED <<promoVars, bcastVars, SCRAPE_JOBS, scrape_lock, stask, exports, clock>>

IdleScrape ==
  /\ SCRAPE_JOBS = [j \in SJobIds |-> NoScrapeJob]
  /\ scrape_lock = None
  /\ stask = [j \in SJobIds |-> NoSTask]
  /\ exports = [c \in Chats |-> NoFile]
  /\ clock = 0
  /\ reply = NoReply

\* the members table when a collection is submitted: any set of stored users
InitScrape ==
  /\ IdleScrape
  /\ members \in {[m \in MemberIds |->
                     IF m \in S THEN [present |-> TRUE, last_broadcast_status |-> "null",
                                      is_hr |-> FALSE, source_chat |-> SourceOf(m)]
                     ELSE NoRow] : S \in SUBSET MemberIds}
  /\ broadcast_history = [k \in BJobIds \X MemberIds |-> <<>>]
  /\ BROADCAST_JOBS = [j \in BJobIds |-> NoJob]
  /\ current_broadcast_job_id = None
  /\ btask = [j \in BJobIds |-> NoTask]
  /\ bsubmit = IdleSubmit

NextScrape ==
  \/ \E c \in Chats : scrape(c)
  \/ \E j \in SJobIds : scrape_stop(j)
  \/ \E j \in SJobIds : STaskAcquire(j)
  \/ \E j \in SJobIds, r \in Rosters, ok \in BOOLEAN : STaskResolve(j, r, ok)
  \/ \E j \in SJobIds : STaskItem(j)
  \/ \E j \in SJobIds : STaskStop(j)
  \/ \E j \in SJobIds : STaskFlood(j)
  \/ \E j \in SJobIds : STaskError(j)
  \/ \E j \in SJobIds : STaskWrite(j)
  \/ \E j \in SJobIds : STaskInsertFails(j)
  \/ \E j \in SJobIds, written \in BOOLEAN : STaskWriteFails(j, written)

----------------------------------------------------------------------------
HistKeys == Days \X Slots \X Peers

\* the promo tables and globals of a fresh installation after on_startup
IdlePromo ==
  /\ now_day = 1
  /\ now_tick = 0
  /\ promo_schedule = PROMO_DEFAULT_SCHEDULE
  /\ promo_groups = <<>>
  /\ promo_messages = 0
  /\ promo_history = [k \in HistKeys |-> <<>>]
  /\ promo_paused = TRUE
  /\ promo_slot_last_day = EmptyCache
  /\ promo_schedule_event = FALSE
  /\ sched = SchedIdle("start")
  /\ resumed_since_start = FALSE
  /\ restarts = 0
  /\ ops = 0

InitPromo ==
  /\ now_day = 1
  /\ now_tick = 0
  /\ promo_schedule = PROMO_DEFAULT_SCHEDULE
  /\ promo_groups \in {_apply_promo_group_records_sync(<<>>, obs) : obs \in {{}, Peers}}
  /\ promo_messages = 1
  /\ promo_history = [k \in HistKeys |-> <<>>]
  /\ promo_paused = TRUE
  /\ promo_slot_last_day = EmptyCache
  /\ promo_schedule_event = FALSE
  /\ sched = SchedIdle("start")
  /\ resumed_since_start = FALSE
  /\ restarts = 0
  /\ ops = 0

Init == InitPromo /\ InitBroadcast /\ IdleScrape

NextPromo ==
  \/ IterStart
  \/ SlotFetch
  \/ \E o \in SendOutcomes : SlotSend(o)
  \/ SlotRecord
  \/ \E recorded \in BOOLEAN : IterFails(recorded)
  \/ SchedWake
  \/ SchedTimeout
  \/ promo_pause
  \/ promo_resume
  \/ \E s \in Slots, t \in Ticks : update_promo_schedule(s, t)
  \/ create_promo_message
  \/ delete_promo_message
  \/ \E obs \in SUBSET Peers : ensure_promo_groups_synced(obs)
  \/ Tick
  \/ \E obs \in SUBSET Peers : on_startup(obs)

\* the promo scheduler and its control operations
PromoInit == InitPromo /\ IdleBroadcast /\ IdleScrape
SpecPromo == PromoInit /\ [][NextPromo]_vars

\* the broadcast engine
BroadcastInit == IdlePromo /\ InitBroadcast /\ IdleScrape
SpecBroadcast == BroadcastInit /\ [][NextBroadcast]_vars

\* the collection engine
ScrapeInit == IdlePromo /\ InitScrape
SpecScrape == ScrapeInit /\ [][NextScrape]_vars

\* the two job registries: both engines without the rate-limit retries,
\* their status requests and the clock
NextRegistry ==
  \/ \E c \in Chats : scrape(c)
  \/ \E j \in SJobIds : scrape_stop(j)
  \/ \E j \in SJobIds : scrape_status(j)
  \/ \E j \in SJobIds : STaskAcquire(j)
  \/ \E j \in SJobIds, r \in SeqsUpTo(MemberIds, 1), ok \in BOOLEAN : STaskResolve(j, r, ok)
  \/ \E j \in SJobIds : STaskItem(j)
  \/ \E j \in SJobIds : STaskStop(j)
  \/ \E j \in SJobIds : STaskError(j)
  \/ \E j \in SJobIds : STaskWrite(j)
  \/ \E j \in SJobIds : STaskInsertFails(j)
  \/ \E j \in SJobIds, written \in BOOLEAN : STaskWriteFails(j, written)
  \/ send_start_fetch(None, "none")
  \/ send_start_create
  \/ \E j \in BJobIds : send_stop(j)
  \/ \E j \in BJobIds : send_status(j)
  \/ \E j \in BJobIds : BTop(j)
  \/ \E j \in BJobIds, o \in {"sent", "rpc_error"} : BSend(j, o)
  \/ \E j \in BJobIds : BMark(j)
  \/ \E j \in BJobIds, marked \in BOOLEAN : BMarkFails(j, marked)
  \/ \E j \in BJobIds : BFinal(j)
  \/ AdvanceClock

\* one stored member, still to be written to, and one user not stored yet
RegistryInit == IdlePromo /\ InitScrape /\ members[1].present /\ ~members[2].present
SpecRegistry == RegistryInit /\ [][NextRegistry]_vars

\* the promo scheduler over two days, with sends that succeed
NextRollover ==
  \/ IterStart
  \/ SlotFetch
  \/ SlotSend("sent")
  \/ SlotRecord
  \/ SchedWake
  \/ SchedTimeout
  \/ promo_pause
  \/ promo_resume
  \/ Tick
  \/ NextDay

SpecRollover == PromoInit /\ [][NextRollover]_vars

Next == NextPromo \/ NextBroadcast \/ NextScrape \/ NextRegistry \/ NextRollover

Spec == Init /\ [][Next]_vars

----------------------------------------------------------------------------
(***************************************************************************)
(* Fairness: the event loop runs every task that is ready, and a request   *)
(* handler that has started runs to its end.                               *)
(***************************************************************************)
\* a members table in which every member is still to be written to
BroadcastFairInit ==
  /\ BroadcastInit
  /\ \A m \in MemberIds : PendingRow(members[m], "none")

SpecBroadcastFair ==
  /\ BroadcastFairInit
  /\ [][NextBroadcast]_vars
  /\ WF_vars(send_start_create)
  /\ \A j \in BJobIds : WF_vars(BStep(j))

SpecScrapeFair ==
  /\ ScrapeInit
  /\ [][NextScrape]_vars
  /\ \A j \in SJobIds : WF_vars(SStep(j))

----------------------------------------------------------------------------
(***************************************************************************)
(* Properties.                                                             *)
(***************************************************************************)

Range(q) == {q[i] : i \in 1..Len(q)}
NoDup(q) == \A i, k \in 1..Len(q) : q[i] = q[k] => i = k
SentRows(rows) == {i \in 1..Len(rows) : rows[i].status = "sent"}
EnabledGroups == {g \in 1..Len(promo_groups) : promo_groups[g].enabled}
InPassSlot == sched.pc \in {"fetch", "send", "record"}
SchedulerStep == sched' # sched /\ restarts' = restarts

\* C1: in any reachable state, whatever wakes, wake signals, pause/resume
\* calls, schedule or catalog edits and restarts came before, promo_history
\* holds at most one row with status "sent" for a (day-key, slot, target)
C1_AtMostOneSent ==
  \A k \in HistKeys : Cardinality(SentRows(promo_history[k])) <= 1

\* a second dispatch pass for a slot, run after a restart emptied the cache,
\* while a target of the slot already has its "sent" row
C1_Witness ==
  /\ restarts > 0
  /\ sched.pc = "send"
  /\ \E g \in Peers :
       SentRows(promo_history[<<sched.day_key, sched.entry.slot, g>>]) # {}

\* C2: from on_startup until promo_resume is called no step sends a promo
\* message and no step writes a row of promo_history
C2_NoSendBeforeResume ==
  [][ ~resumed_since_start =>
        /\ ~(sched.pc = "send" /\ sched'.pc = "record")
        /\ promo_history' = promo_history ]_vars

\* the process was restarted while the scheduler was running unpaused, and
\* an iteration after the restart has gone over a slot that is due
C2_Witness ==
  /\ restarts > 0
  /\ ~resumed_since_start
  /\ promo_paused
  /\ sched.pc = "wait"
  /\ \E g \in Peers, s \in Slots : promo_history[<<now_day, s, g>>] # <<>>
  /\ \E s \in Slots : /\ promo_slot_last_day[s] = None
                      /\ promo_schedule[s] <= now_tick
  /\ EnabledGroups # {}
  /\ promo_messages > 0

\* C7 (as claimed): a slot is marked completed for the day only by a
\* dispatch pass for that slot, so a slot whose window has passed stays due
C7_MarkedOnlyByDispatch ==
  [][ \A s \in Slots :
        (promo_slot_last_day[s] = None /\ promo_slot_last_day'[s] # None)
          => (sched.pc \in {"fetch", "record"} /\ sched.entry.slot = s) ]_vars

\* C8 (as claimed): a target whose only attempts for (day-key, slot) ended
\* in a rate-limit signal is still pending for that (day-key, slot)
C8_FloodedStaysPending ==
  \A k \in HistKeys :
    (/\ promo_history[k] # <<>>
     /\ \A i \in 1..Len(promo_history[k]) : promo_history[k][i].details = "flood_wait")
      => k[3] \notin _fetch_slot_done_groups_sync(promo_history, k[1], k[2])

PassKey(g) == <<sched.day_key, sched.entry.slot, g>>

\* the targets of the running pass: those before idx have exactly one row,
\* the others have none yet
C9_PassState ==
  sched.pc \in {"send", "record"} =>
    /\ NoDup(sched.pending)
    /\ \A i \in 1..Len(sched.pending) :
         Len(promo_history[PassKey(sched.pending[i])]) = IF i < sched.idx THEN 1 ELSE 0

C9_PassStep ==
  /\ (sched.pc = "fetch" /\ sched'.pc = "send") =>
       Range(sched'.pending) =
         {g \in EnabledGroups : promo_history[<<sched.day_key, sched.entry.slot, g>>] = <<>>}
  /\ promo_history' # promo_history =>
       /\ sched.pc = "record"
       /\ promo_history[PassKey(sched.pending[sched.idx])] = <<>>
       /\ \A k \in HistKeys :
            IF k = PassKey(sched.pending[sched.idx])
            THEN Len(promo_history'[k]) = 1
            ELSE promo_history'[k] = promo_history[k]
  /\ (SlotRecord /\ sched.idx = Len(sched.pending)) =>
       promo_slot_last_day'[sched.entry.slot] = sched.day_key
  /\ (SlotFetch /\ EnabledGroups # {} /\ promo_messages > 0
        /\ \A g \in EnabledGroups : promo_history[PassKey(g)] # <<>>) =>
       /\ promo_slot_last_day'[sched.entry.slot] = sched.day_key
       /\ promo_history' = promo_history
  /\ (SchedulerStep /\ InPassSlot
        /\ promo_slot_last_day[sched.entry.slot] # sched.day_key
        /\ promo_slot_last_day'[sched.entry.slot] = sched.day_key) =>
       \A g \in Range(sched.pending) : Len(promo_history'[PassKey(g)]) = 1

\* C9: a dispatch pass for a due slot attempts exactly the enabled targets
\* with no row for (day-key, slot) in promo_history, each once, writes no row
\* for a target that already has one, and marks the slot completed when no
\* target is left pending; a pass that runs after a restart does the same
C9_PassAttemptsExactlyPending == [](C9_PassState) /\ [][C9_PassStep]_vars

\* after a restart, the pass is about to record its last target while an
\* enabled target attempted before the restart is left out of the pass
C9_Witness ==
  /\ restarts > 0
  /\ sched.pc = "record"
  /\ sched.idx = Len(sched.pending)
  /\ \E g \in EnabledGroups :
       /\ g \notin Range(sched.pending)
       /\ Len(promo_history[PassKey(g)]) = 1

BRunning(j) == BROADCAST_JOBS[j].status = "running"
BTerminal(j) == BROADCAST_JOBS[j].status \in Terminal
JobsOfMember(m) == {j \in BJobIds : broadcast_history[<<j, m>>] # <<>>}

\* C3 (as claimed): no recipient is sent the message or marked by two
\* broadcast jobs
C3_NoRecipientOfTwoJobs ==
  \A m \in MemberIds : Cardinality(JobsOfMember(m)) <= 1

\* a job that is running stays running or takes a terminal status
C4_Step ==
  \A j \in BJobIds : BRunning(j) => (BRunning(j)' \/ BTerminal(j)')

\* C4: when two broadcast jobs are running at the same time, a state follows
\* in which no job is running, so both have taken a terminal status; and a
\* job that has ended without being flagged for cancellation and without a
\* failure of its bookkeeping has processed its whole recipient list
C4_BothJobsTerminate ==
  /\ [][C4_Step]_vars
  /\ (\E a \in BJobIds : \E b \in BJobIds \ {a} : BRunning(a) /\ BRunning(b))
        ~> (\A j \in BJobIds : ~BRunning(j))
  /\ [](\A b \in BJobIds :
          (/\ BTerminal(b)
           /\ ~BROADCAST_JOBS[b].cancel_requested
           /\ BROADCAST_JOBS[b].message # "database error") =>
             BROADCAST_JOBS[b].processed = BROADCAST_JOBS[b].total)

\* job a, superseded by job b while it was running, has left its loop and is
\* about to write its final status; b has ended after working through a list
\* of its own
C4_Witness ==
  \E a \in BJobIds : \E b \in BJobIds \ {a} :
    /\ BROADCAST_JOBS[a].message = "Superseded by a new broadcast."
    /\ btask[a].pc = "final"
    /\ BTerminal(b)
    /\ ~BROADCAST_JOBS[b].cancel_requested
    /\ BROADCAST_JOBS[b].total >= 1
    /\ BROADCAST_JOBS[b].processed = BROADCAST_JOBS[b].total

\* C5 (as claimed): a broadcast task that has ended, no send or persistence
\* failure having ended its loop, leaves status "cancelled" when the flag was
\* set and "done" otherwise
C5_FinalStatus ==
  \A j \in BJobIds :
    btask[j].pc = "ended" =>
      BROADCAST_JOBS[j].status =
        IF BROADCAST_JOBS[j].cancel_requested THEN "cancelled" ELSE "done"

\* the step of send_start that computes a recipient list
C11_Step ==
  (bsubmit.pc = "idle" /\ bsubmit'.pc = "fetched") =>
     \A i \in 1..Len(bsubmit'.recipients) :
        LET row == members[bsubmit'.recipients[i].id]
        IN /\ row.present
           /\ row.last_broadcast_status = "null"
           /\ ~row.is_hr
           /\ ~bsubmit'.recipients[i].is_hr
           /\ (bsubmit'.source_chat # "none" => row.source_chat = bsubmit'.source_chat)

\* C11: every recipient of a list computed by send_start is, in the members
\* table the list is computed from, without a recorded outreach, not flagged
\* is_hr and, when a source_chat filter was given, of that source_chat; the
\* list a job works through is the list computed for it
C11_RecipientsWerePending ==
  /\ [][C11_Step]_vars
  /\ [][(bsubmit.pc = "fetched" /\ bsubmit'.pc = "idle") =>
          \E j \in BJobIds : /\ btask[j].pc = "none"
                              /\ btask'[j].recipients = bsubmit.recipients]_vars

\* a list was computed under a source_chat filter while the table held a
\* member of another source_chat, a member already written to, and a member
\* flagged is_hr or not: the list leaves members out
C11_Witness ==
  /\ bsubmit.pc = "fetched"
  /\ bsubmit.source_chat = "a"
  /\ Len(bsubmit.recipients) >= 1
  /\ \E m \in MemberIds : /\ members[m].present
                            /\ members[m].source_chat # "a"
                            /\ members[m].last_broadcast_status = "null"
                            /\ ~members[m].is_hr

\* a row of the members table is written only together with a row of the
\* broadcast log for the same member
C12_Step ==
  \A m \in MemberIds :
    members'[m] # members[m] =>
      \E j \in BJobIds :
        /\ btask[j].pc = "mark"
        /\ btask[j].recipients[btask[j].idx].id = m
        /\ \/ btask'[j].pc \in {"final", "ended"}
           \/ btask'[j].pc = "top" /\ btask'[j].idx = btask[j].idx + 1

\* C12: a broadcast job writes the last-outreach fields of a recipient at
\* most once, whatever number of rate-limited sends came before the write
C12_MarkedOncePerJob ==
  /\ [](\A j \in BJobIds : \A m \in MemberIds : Len(broadcast_history[<<j, m>>]) <= 1)
  /\ [][C12_Step]_vars

\* a job has marked a recipient after a rate-limited send to it, and has gone
\* on in its list
C12_Witness ==
  \E j \in BJobIds :
    /\ btask[j].floods >= 1
    /\ btask[j].idx = 2
    /\ btask[j].pc \in {"top", "sending"}
    /\ Len(broadcast_history[<<j, btask[j].recipients[1].id>>]) = 1


\* a broadcast job that is running and not asked to stop
BCurrent(j) == BRunning(j) /\ ~BROADCAST_JOBS[j].cancel_requested

C14_Step ==
  \A j \in BJobIds :
    (BROADCAST_JOBS[j].status = "absent" /\ BRunning(j)') =>
       /\ current_broadcast_job_id' = j
       /\ \A k \in BJobIds \ {j} :
             BRunning(k) => BROADCAST_JOBS'[k].cancel_requested

\* C14: at most one broadcast job is running with its cancel_requested flag
\* unset, and it is the one current_broadcast_job_id names; the step of
\* send_start that creates a record leaves every job that was running flagged
C14_OneCurrentBroadcast ==
  /\ [](Cardinality({j \in BJobIds : BCurrent(j)}) <= 1)
  /\ [](\A j \in BJobIds : BCurrent(j) => current_broadcast_job_id = j)
  /\ [][C14_Step]_vars

\* two jobs are running: the older one flagged by the submission of the newer
C14_Witness ==
  \E a \in BJobIds : \E b \in BJobIds \ {a} :
    /\ BRunning(a)
    /\ BROADCAST_JOBS[a].message = "Superseded by a new broadcast."
    /\ btask[a].pc \in {"top", "sending", "mark"}
    /\ BCurrent(b)
    /\ current_broadcast_job_id = b

SRunning(j) == SCRAPE_JOBS[j].status = "running"

\* the phases in which a collection task works: target resolution,
\* enumeration with its writes to the members table, and the export
SActive(j) == stask[j].pc \in {"resolve", "iter", "write"}

C13_State ==
  /\ Cardinality({j \in SJobIds : SActive(j)}) <= 1
  /\ \A j \in SJobIds : SActive(j) <=> scrape_lock = j
  /\ \A j \in SJobIds : SActive(j) => SRunning(j)

C13_Step ==
  /\ (members' # members \/ exports' # exports) =>
        /\ scrape_lock # None
        /\ stask'[scrape_lock] # stask[scrape_lock]
  /\ \A j \in SJobIds :
        (stask[j].pc = "lock" /\ scrape_lock # None) =>
           /\ stask'[j] = stask[j]
           /\ SCRAPE_JOBS'[j].status = SCRAPE_JOBS[j].status
  /\ \A j \in SJobIds :
        (scrape_lock = j /\ scrape_lock' # j) =>
           /\ SCRAPE_JOBS'[j].status \in Terminal
           /\ stask'[j].pc = "ended"

\* C13: at most one collection task is resolving, enumerating, storing or
\* exporting, and it is the holder of scrape_lock; the lock is taken before
\* the first read of the members table and given up in the step that writes
\* the final status; a task waiting for the lock does nothing meanwhile
C13_OneActiveCollection == [](C13_State) /\ [][C13_Step]_vars

\* a job has stored a member while another job, submitted meanwhile, waits
\* for the lock
C13_Witness ==
  \E j \in SJobIds : \E k \in SJobIds \ {j} :
    /\ scrape_lock = j
    /\ stask[j].pc = "iter"
    /\ Len(stask[j].job_members) >= 1
    /\ stask[k].pc = "lock"
    /\ SRunning(k)

C6_Step ==
  \A j \in SJobIds :
    (/\ stask[j].pc = "iter"
     /\ SCRAPE_JOBS[j].cancel_requested
     /\ stask'[j].pos = stask[j].pos + 1)
      => /\ stask'[j].pc = "write"
         /\ members' = members
         /\ stask'[j].job_members = stask[j].job_members

C6_Stored ==
  \A j \in SJobIds :
    \A i \in 1..Len(stask[j].job_members) : members[stask[j].job_members[i]].present

\* C6: once the flag of an enumerating collection job is set, the next
\* member the iterator yields ends the loop and nothing more is collected;
\* the job then reaches a terminal status; every member collected is in the
\* members table
C6_CancelStopsCollection ==
  /\ [][C6_Step]_vars
  /\ [](C6_Stored)
  /\ \A j \in SJobIds :
       (SRunning(j) /\ SCRAPE_JOBS[j].cancel_requested /\ stask[j].pc = "iter")
          ~> (SCRAPE_JOBS[j].status \in Terminal)

\* a job has left its loop at the checkpoint with a member collected, and the
\* member yielded last, which it had not seen, was not collected
C6_Witness ==
  \E j \in SJobIds :
    /\ stask[j].pc = "write"
    /\ stask[j].stopped_by = "cancel"
    /\ SCRAPE_JOBS[j].cancel_requested
    /\ Len(stask[j].job_members) >= 1
    /\ stask[j].pos >= 2
    /\ stask[j].roster[stask[j].pos] \notin stask[j].existing_ids
    /\ ~members[stask[j].roster[stask[j].pos]].present

C10_Step ==
  \A j \in SJobIds :
    (/\ stask[j].pc = "write"
     /\ stask[j].stopped_by = "exhausted"
     /\ SCRAPE_JOBS'[j].status = "done")
      => /\ SCRAPE_JOBS'[j].processed = Len(stask[j].roster)
         /\ SCRAPE_JOBS'[j].total =
              Cardinality(Range(stask[j].roster) \ stask[j].ids_at_start)

\* C10: a collection job whose iterator ran to its end is recorded with
\* processed = number of members yielded and total = number of distinct
\* yielded ids that were not in the members table at the job's first read
C10_FinalCounts == [][C10_Step]_vars

\* a job is done, its iterator exhausted, having counted more members as
\* processed than as novel
C10_Witness ==
  \E j \in SJobIds :
    /\ SCRAPE_JOBS[j].status = "done"
    /\ ~SCRAPE_JOBS[j].cancel_requested
    /\ SCRAPE_JOBS[j].total >= 1
    /\ SCRAPE_JOBS[j].processed > SCRAPE_JOBS[j].total

\* the answer of a status request agrees with the registry after the request
C15_Step ==
  reply'.n # reply.n =>
    LET r == reply'
    IN \/ /\ r.op = "scrape_status"
          /\ IF SCRAPE_JOBS'[r.job_id].status = "absent"
             THEN r.code = 404
             ELSE /\ r.code = 200
                  /\ r.body = JobStatusResponse(r.job_id, SCRAPE_JOBS'[r.job_id])
       \/ /\ r.op = "send_status"
          /\ IF BROADCAST_JOBS'[r.job_id].status = "absent"
             THEN r.code = 404
             ELSE /\ r.code = 200
                  /\ r.body = BroadcastStatusResponse(r.job_id, BROADCAST_JOBS'[r.job_id])
\* C15: every status request is answered with the job's record when the id
\* is in the registry and with NotFound (404) when it is not, whatever jobs
\* have finished before; no request ends in any other failure.
C15_StatusReadAnswers == [][C15_Step]_vars

\* a finished job that is older than the retention window
C16_Stale(job, now) ==
  /\ job.status \in Terminal
  /\ job.finished_at # NoTime
  /\ job.finished_at < now - JOB_RETENTION_SECONDS
C16_Step ==
  (\/ reply'.n # reply.n
   \/ \E j \in SJobIds : SCRAPE_JOBS[j].status = "absent" /\ SCRAPE_JOBS'[j].status # "absent"
   \/ \E j \in BJobIds : BROADCAST_JOBS[j].status = "absent" /\ BROADCAST_JOBS'[j].status # "absent")
  => /\ \A j \in SJobIds : ~C16_Stale(SCRAPE_JOBS'[j], clock')
     /\ \A j \in BJobIds : ~C16_Stale(BROADCAST_JOBS'[j], clock')
\* C16: eviction runs before every job submission and every status read;
\* after such a request neither registry holds a job with a terminal status
\* whose finished-at is older than the retention window.
C16_NoStaleJobAfterRequest == [][C16_Step]_vars

\* a step of send_start that reads an empty recipient list
C17_Step ==
  (\E limit \in {None, 1}, src \in {"none", "a"} :
      /\ send_start_fetch(limit, src)
      /\ _fetch_pending_broadcast_members_sync(members, limit, src) = <<>>)
  => /\ bsubmit'.result = "400"
     /\ bsubmit'.pc = "idle"
     /\ UNCHANGED <<BROADCAST_JOBS, current_broadcast_job_id, btask,
                    members, broadcast_history>>
\* C17: a send_start that finds no eligible recipient is rejected: it
\* creates no job record, sets no cancellation flag on the running
\* broadcast, and leaves the current-broadcast pointer, the members table
\* and broadcast_history as they were.
C17_RejectedSubmissionChangesNothing == [][C17_Step]_vars
C17_Witness ==
  /\ bsubmit.result = "400"
  /\ \E j \in BJobIds : /\ BROADCAST_JOBS[j].status = "running"
                        /\ current_broadcast_job_id = j
                        /\ ~BROADCAST_JOBS[j].cancel_requested
                        /\ btask[j].pc \in {"top", "sending", "mark"}

\* a step in which the task of collection job j meets a failure
C18_ScrapeFailure(j) ==
  \/ STaskError(j)
  \/ STaskInsertFails(j)
  \/ \E written \in BOOLEAN : STaskWriteFails(j, written)
  \/ STaskResolve(j, <<>>, FALSE)
C18_Step ==
  /\ \A j \in SJobIds :
       C18_ScrapeFailure(j) =>
         /\ stask'[j].pc = "ended"
         /\ SCRAPE_JOBS'[j].status = "error"
         /\ SCRAPE_JOBS'[j].error # "none"
         /\ SCRAPE_JOBS'[j].finished_at # NoTime
  /\ \A j \in BJobIds :
       (\E marked \in BOOLEAN : BMarkFails(j, marked)) =>
         /\ btask'[j].pc = "ended"
         /\ BROADCAST_JOBS'[j].status = "error"
         /\ BROADCAST_JOBS'[j].message \notin {"none", "Superseded by a new broadcast.",
                                               "Cancellation requested by user."}
         /\ BROADCAST_JOBS'[j].finished_at # NoTime
\* C18: once the task of a collection or broadcast job has ended, the
\* record of the job has a terminal status; a step in which the task meets a
\* failure (client error, persistence error) ends the task and leaves the
\* record with status "error" and the text of the failure (key "error" of a
\* collection record, key "message" of a broadcast record).
C18_EndedTaskHasTerminalRecord ==
  /\ [](\A j \in SJobIds : stask[j].pc = "ended" => SCRAPE_JOBS[j].status \in Terminal)
  /\ [](\A j \in BJobIds : btask[j].pc = "ended" => BROADCAST_JOBS[j].status \in Terminal)
  /\ [][C18_Step]_vars
\* a collection job has failed after it had collected a member, and a
\* broadcast job has failed in its bookkeeping
C18_Witness ==
  /\ \E j \in SJobIds : /\ stask[j].pc = "ended"
                        /\ SCRAPE_JOBS[j].status = "error"
                        /\ SCRAPE_JOBS[j].total >= 1
  /\ \E j \in BJobIds : /\ btask[j].pc = "ended"
                        /\ BROADCAST_JOBS[j].status = "error"
                        /\ BROADCAST_JOBS[j].message = "database error"

\* the group list of the previous synchronisation: it left enabled exactly
\* the rows of the peers it was given
C19_PreviousList == {promo_groups[g].peer_id : g \in EnabledGroups}
C19_Step ==
  \A obs \in SUBSET Peers :
    (ensure_promo_groups_synced(obs) /\ obs = C19_PreviousList)
      => /\ SyncWrites(promo_groups, obs) = 0
         /\ promo_groups' = promo_groups
\* C19: a synchronisation of the target catalog that is given the same group
\* list as the previous one writes no row of promo_groups.
C19_ResyncWritesNothing == [][C19_Step]_vars

\* the key of promo_history of the target that the pass has in hand
C20_Key == <<sched.day_key, sched.entry.slot, sched.pending[sched.idx]>>
C20_Step ==
  /\ (SlotRecord /\ sched.details \in {"rpc_error", "invalid_peer"}) =>
       /\ \A k \in HistKeys :
            promo_history'[k] =
              IF k = C20_Key
              THEN Append(promo_history[k], [status |-> "failed", details |-> sched.details])
              ELSE promo_history[k]
       /\ sched.idx < Len(sched.pending) =>
            /\ sched'.pc = "send"
            /\ sched'.pending = sched.pending
            /\ sched'.idx = sched.idx + 1
       /\ sched.idx = Len(sched.pending) => sched'.pc \in {"fetch", "wait"}
  /\ (\E recorded \in BOOLEAN : IterFails(recorded)) => sched'.pc = "wait"
  /\ (SchedWake \/ SchedTimeout) => sched'.pc = "start"
\* C20: a terminal send error or an unaddressable target adds one "failed"
\* row for that target and no other row, and the pass goes on with the next
\* pending target of the slot; an iteration that fails leaves the scheduler
\* loop in its wait, from which the next wake starts a new iteration.
C20_FailureDoesNotStopPassOrLoop ==
  /\ [](sched.pc \in {"start", "fetch", "send", "record", "wait"})
  /\ [][C20_Step]_vars
\* the pass is at its second target after a terminal failure at the first
C20_Witness ==
  /\ sched.pc \in {"send", "record"}
  /\ sched.idx = 2
  /\ LET rows == promo_history[<<sched.day_key, sched.entry.slot, sched.pending[1]>>]
     IN /\ Len(rows) = 1
        /\ rows[1].status = "failed"
        /\ rows[1].details \in {"rpc_error", "invalid_peer"}

\* a request handler that calls _trigger_promo_scheduler_check
C21_Signal ==
  \/ promo_resume
  \/ create_promo_message
  \/ delete_promo_message
  \/ \E s \in Slots, t \in Ticks : update_promo_schedule(s, t)
C21_Step ==
  /\ C21_Signal => promo_schedule_event'
  /\ (promo_schedule_event /\ ~promo_schedule_event' /\ restarts' = restarts) =>
       (sched.pc = "wait" /\ sched'.pc = "start")
  /\ (sched.pc = "wait" /\ promo_schedule_event /\ sched' # sched /\ restarts' = restarts) =>
       (sched'.pc = "start" /\ ~promo_schedule_event')
  /\ (sched.pc = "wait" /\ sched'.pc = "start" /\ restarts' = restarts) =>
       ~promo_schedule_event'
\* C21: a wake signal, sent at any moment, sets promo_schedule_event; the
\* event stays set until the scheduler leaves its wait to start an iteration,
\* which it does without the timeout when the event is set; that step clears
\* the event, so all the signals sent before it start one iteration.
C21_SignalKeptUntilIteration == [][C21_Step]_vars
\* a signal is pending while a dispatch pass is in progress
C21_Witness ==
  /\ promo_schedule_event
  /\ sched.pc \in {"send", "record"}
  /\ ops >= 2

C22_Step ==
  \A j \in SJobIds :
    (STaskWrite(j) /\ stask[j].stopped_by = "cancel") =>
       /\ stask'[j].pc = "ended"
       /\ SCRAPE_JOBS'[j].processed = stask[j].pos
       /\ SCRAPE_JOBS'[j].status = "cancelled"
\* C22: a collection job that has seen its cancel_requested flag at the
\* checkpoint of the loop stops iterating, and the status it writes at its
\* end is "cancelled".
C22_CancelledCollectionStatus == [][C22_Step]_vars

C23_Step ==
  /\ \A j \in BJobIds :
       BSend(j, "flood_wait") =>
         /\ btask'[j].pc = "sending"
         /\ btask'[j].idx = btask[j].idx
         /\ btask'[j].status = btask[j].status
         /\ btask'[j].processed = btask[j].processed
         /\ btask'[j].sent_failed = btask[j].sent_failed
         /\ btask'[j].sent_success = btask[j].sent_success
         /\ UNCHANGED <<members, broadcast_history, BROADCAST_JOBS>>
  /\ \A m \in MemberIds :
       members'[m] # members[m] =>
         \E j \in BJobIds :
           /\ btask[j].pc = "mark"
           /\ btask[j].recipients[btask[j].idx].id = m
           /\ btask[j].status \in {"sent", "rpc_error"}
\* C23: a rate-limit signal during a send leaves the job at the same
\* recipient with its counters, its record, the members table and the log
\* unchanged; a recipient is stamped only by the bookkeeping that follows a
\* send that succeeded or failed for good, and no outcome other than these
\* two is ever stored.
C23_RateLimitRetriesSameRecipient ==
  /\ [](\A k \in BJobIds \X MemberIds : \A i \in 1..Len(broadcast_history[k]) :
          broadcast_history[k][i] \in {"sent", "rpc_error"})
  /\ [](\A m \in MemberIds :
          members[m].last_broadcast_status \in {"null", "sent", "rpc_error"})
  /\ [](\A j \in BJobIds : btask[j].pc = "mark" => btask[j].status \in {"sent", "rpc_error"})
  /\ [][C23_Step]_vars
\* a job is still at its first recipient after a rate limit, nothing stamped
C23_Witness ==
  \E j \in BJobIds :
    /\ btask[j].floods >= 1
    /\ btask[j].pc = "sending"
    /\ btask[j].idx = 1
    /\ btask[j].sent_failed = 0
    /\ members[btask[j].recipients[1].id].last_broadcast_status = "null"
    /\ broadcast_history[<<j, btask[j].recipients[1].id>>] = <<>>

C24_Step ==
  \A j \in SJobIds :
    STaskFlood(j) =>
      /\ stask'[j] = [stask[j] EXCEPT !.floods = @ + 1]
      /\ SCRAPE_JOBS'[j] = SCRAPE_JOBS[j]
      /\ SCRAPE_JOBS'[j].status = "running"
      /\ scrape_lock' = j
      /\ members' = members
\* C24: a rate-limit signal of the member iterator changes neither the
\* record of the job, which stays running, nor the position of the iterator
\* nor what the job has collected; the members processed so far are always
\* exactly the members the iterator has yielded so far.
C24_FloodKeepsIteratorPosition ==
  /\ [](\A j \in SJobIds : stask[j].pc \in {"iter", "write"} =>
            stask[j].processed_total = stask[j].pos)
  /\ [][C24_Step]_vars
\* a job has gone through its whole list of two members with a rate limit
\* on the way
C24_Witness ==
  \E j \in SJobIds :
    /\ stask[j].floods >= 1
    /\ stask[j].pc = "write"
    /\ stask[j].stopped_by = "exhausted"
    /\ Len(stask[j].roster) = 2
    /\ stask[j].processed_total = 2

C25_Step ==
  \A j \in SJobIds :
    STaskError(j) =>
      /\ SCRAPE_JOBS'[j].status = "error"
      /\ SCRAPE_JOBS'[j].total = Len(stask[j].job_members)
      /\ SCRAPE_JOBS'[j].processed = stask[j].processed_total
      /\ NoDup(stask[j].job_members)
      /\ Range(stask[j].job_members) \cap stask[j].ids_at_start = {}
      /\ \A u \in Range(stask[j].job_members) : members'[u].present
      /\ members' = members
      /\ stask'[j].pc = "ended"
\* C25: when the member iterator fails with a terminal error the job ends
\* with status error, the Store is left as it is with every new member the
\* job had collected in it, and the total of the record is the number of
\* those members.
C25_EnumerationErrorKeepsPartial == [][C25_Step]_vars
\* a job failed by the iterator after it had collected two new members
C25_Witness ==
  \E j \in SJobIds :
    /\ SCRAPE_JOBS[j].status = "error"
    /\ SCRAPE_JOBS[j].error = "Telegram RPC error"
    /\ SCRAPE_JOBS[j].total = 2
    /\ \A u \in MemberIds : members[u].present

\* the log rows of job j
C26_Rows(j) == SumLen(broadcast_history, {j} \X MemberIds)
\* C26: every recipient within the processed count of a job's record has a
\* stamped outreach outcome in the Store and exactly one log row of that job;
\* no (job, recipient) has more than one row and the processed count never
\* exceeds the number of the job's rows.
C26_ProcessedIsBookkept ==
  \A j \in BJobIds :
    /\ BROADCAST_JOBS[j].processed <= Len(btask[j].recipients)
    /\ BROADCAST_JOBS[j].processed <= C26_Rows(j)
    /\ \A m \in MemberIds : Len(broadcast_history[<<j, m>>]) <= 1
    /\ \A i \in 1..BROADCAST_JOBS[j].processed :
         LET m == btask[j].recipients[i].id
         IN /\ members[m].present
            /\ members[m].last_broadcast_status \in {"sent", "rpc_error"}
            /\ Len(broadcast_history[<<j, m>>]) = 1
\* a job has processed two recipients, one reached and one refused
C26_Witness ==
  \E j \in BJobIds :
    /\ BROADCAST_JOBS[j].processed = 2
    /\ broadcast_history[<<j, btask[j].recipients[1].id>>] = <<"sent">>
    /\ broadcast_history[<<j, btask[j].recipients[2].id>>] = <<"rpc_error">>

\* the moves left to a task whose job is flagged
C27_Moves ==
  {<<"top", "final">>, <<"sending", "mark">>, <<"mark", "final">>,
   <<"mark", "ended">>, <<"final", "ended">>}
C27_Step ==
  \A j \in BJobIds :
    BROADCAST_JOBS[j].cancel_requested =>
      LET t == btask[j] IN
      /\ BROADCAST_JOBS'[j].cancel_requested
      /\ btask'[j].idx = t.idx
      /\ btask'[j].recipients = t.recipients
      /\ btask'[j].pc # t.pc => <<t.pc, btask'[j].pc>> \in C27_Moves
      /\ \A i \in 1..Len(t.recipients) :
           (i # t.idx \/ t.pc # "mark") =>
             /\ broadcast_history'[<<j, t.recipients[i].id>>] =
                  broadcast_history[<<j, t.recipients[i].id>>]
             /\ members'[t.recipients[i].id] # members[t.recipients[i].id] =>
                  \E k \in BJobIds \ {j} :
                    /\ btask[k].pc = "mark"
                    /\ btask[k].recipients[btask[k].idx].id = t.recipients[i].id
\* C27: once the cancellation flag of a broadcast job is set it stays set and
\* the job never moves to another recipient: it can only finish the send in
\* flight and its bookkeeping and then end.  The recipients behind the
\* current one never get a log row of the job, and their Store rows are
\* changed by no step of the job.
C27_CancelStopsAfterInFlight ==
  /\ [](\A j \in BJobIds : \A i \in 1..Len(btask[j].recipients) :
          i > btask[j].idx => broadcast_history[<<j, btask[j].recipients[i].id>>] = <<>>)
  /\ [][C27_Step]_vars
\* a flagged job has done the bookkeeping of its first recipient and left the
\* loop; its second recipient is still without outreach
C27_Witness ==
  \E j \in BJobIds :
    /\ BROADCAST_JOBS[j].cancel_requested
    /\ btask[j].pc = "final"
    /\ btask[j].idx = 1
    /\ Len(btask[j].recipients) = 2
    /\ Len(broadcast_history[<<j, btask[j].recipients[1].id>>]) = 1
    /\ members[btask[j].recipients[2].id].last_broadcast_status = "null"
    /\ broadcast_history[<<j, btask[j].recipients[2].id>>] = <<>>

\* slot s is due now: its window has begun, the next window has not, and the
\* cache does not hold it for today
C28_Due(s) ==
  LET plan == _build_schedule_plan_for_day(now_day, promo_schedule)
      now == AbsTime(now_day, now_tick)
  IN /\ promo_slot_last_day[s] # now_day
     /\ \E i \in 1..Len(plan) : /\ plan[i].slot = s
                                /\ plan[i].local_start <= now
                                /\ now < plan[i].next_start
C28_Step ==
  /\ (IterStart /\ promo_paused) =>
       /\ promo_history' = promo_history
       /\ sched'.pc = "wait"
       /\ \A s \in Slots : C28_Due(s) => promo_slot_last_day'[s] # now_day
  /\ (SlotFetch /\ (_get_active_promo_groups(promo_groups) = <<>> \/ promo_messages = 0)) =>
       /\ promo_history' = promo_history
       /\ sched'.pc # "send"
       /\ promo_slot_last_day'[sched.entry.slot] # sched.day_key
C29_Step ==
  \A s \in Slots :
    (promo_slot_last_day'[s] # None /\ promo_slot_last_day'[s] # promo_slot_last_day[s]) =>
      \A g \in 1..Len(promo_groups') :
        (promo_groups'[g].enabled /\ promo_groups'[g].peer_id # None) =>
          promo_history'[<<promo_slot_last_day'[s], s, g>>] # <<>>
\* C29 (as claimed): at every step that marks a slot completed for a day in
\* promo_slot_last_day, every enabled target has a row of promo_history for
\* that day and slot.
C29_MarkedMeansAllAttempted == [][C29_Step]_vars

\* slot s has not reached the end of its window today
C30_WindowOpen(s) ==
  LET plan == _build_schedule_plan_for_day(now_day, promo_schedule)
  IN \E i \in 1..Len(plan) : /\ plan[i].slot = s
                             /\ AbsTime(now_day, now_tick) < plan[i].next_start
C30_Step ==
  IterStart =>
    \A s \in Slots :
      /\ promo_slot_last_day'[s] \in {None, now_day}
      /\ (promo_slot_last_day[s] \notin {None, now_day} /\ C30_WindowOpen(s)) =>
           promo_slot_last_day'[s] = None
\* C30: the start of every scheduler iteration leaves in promo_slot_last_day
\* only entries of today's day-key, and during the pass that follows the
\* cache holds only entries of the pass's day-key; a slot whose entry was of
\* an earlier day and whose window has not ended is left without an entry,
\* to be evaluated as any slot not completed today.
C30_CacheHoldsOnlyToday ==
  /\ [](InPassSlot => \A s \in Slots : promo_slot_last_day[s] \in {None, sched.day_key})
  /\ [][C30_Step]_vars
\* the morning slot was completed on day 1 for both targets; on day 2 the
\* scheduler has woken and the cache has no entry left
C30_Witness ==
  /\ now_day = 2
  /\ restarts = 0
  /\ sched.pc = "wait"
  /\ \A g \in Peers : promo_history[<<1, "morning", g>>] # <<>>
  /\ \A s \in Slots : promo_slot_last_day[s] = None

\* C31: for every schedule the plan of the day holds each slot once, in
\* ascending order of start; every window is non-empty and runs from the
\* slot's start to the start of the following entry, taken on the next day
\* when that start is not later (the last entry, whose window ends at the
\* first start of the next day, and an entry tied with its successor); when
\* the starts are distinct every moment from the first start to the first
\* start of the next day lies in exactly one window.
C31_PlanWindows ==
  LET plan == _build_schedule_plan_for_day(now_day, promo_schedule)
      n == Len(plan)
      first == plan[1].local_start
      Distinct == \A i, k \in 1..n : plan[i].local_start = plan[k].local_start => i = k
  IN /\ n = Cardinality(Slots)
     /\ {plan[i].slot : i \in 1..n} = Slots
     /\ \A i \in 1..n :
          /\ plan[i].local_start = AbsTime(now_day, promo_schedule[plan[i].slot])
          /\ plan[i].next_start > plan[i].local_start
     /\ \A i \in 1..(n - 1) :
          /\ plan[i].local_start <= plan[i + 1].local_start
          /\ plan[i].next_start =
               IF plan[i + 1].local_start > plan[i].local_start
               THEN plan[i + 1].local_start
               ELSE plan[i + 1].local_start + TicksPerDay
     /\ plan[n].next_start = first + TicksPerDay
     /\ Distinct =>
          \A t \in first..(first + TicksPerDay - 1) :
            Cardinality({i \in 1..n : plan[i].local_start <= t /\ t < plan[i].next_start}) = 1
\* the schedule was edited into another order of the slots and a pass runs
\* the evening slot, now the first of the day, in its window
C31_Witness ==
  /\ promo_schedule = [s \in Slots |-> CASE s = "evening" -> 0
                                         [] s = "noon" -> 1
                                         [] s = "morning" -> 2]
  /\ sched.pc = "fetch"
  /\ sched.entry.slot = "evening"
  /\ sched.entry.next_start = sched.entry.local_start + 1

\* the catalog after a synchronization with the observed peers
C32_Synced(observed) ==
  /\ \A p \in observed :
       \E i \in 1..Len(promo_groups') :
         promo_groups'[i].peer_id = p /\ promo_groups'[i].enabled
  /\ \A i \in 1..Len(promo_groups') :
       (promo_groups'[i].peer_id # None /\ promo_groups'[i].peer_id \notin observed) =>
         ~promo_groups'[i].enabled
C32_Step ==
  /\ Len(promo_groups') >= Len(promo_groups)
  /\ \A i \in 1..Len(promo_groups) : promo_groups'[i].peer_id = promo_groups[i].peer_id
  /\ promo_history' # promo_history =>
       \A k \in HistKeys :
         /\ Len(promo_history'[k]) >= Len(promo_history[k])
         /\ SubSeq(promo_history'[k], 1, Len(promo_history[k])) = promo_history[k]
  /\ ops' # ops =>
       \A obs \in SUBSET Peers :
         (ensure_promo_groups_synced(obs) \/ on_startup(obs)) => C32_Synced(obs)
\* C32: no step removes a row of promo_groups or of promo_history; after a
\* synchronization every observed peer has an enabled row and every row
\* with a peer that was not observed is disabled.
C32_SyncNeverDeletes == [][C32_Step]_vars
\* after a dispatch to the first target a synchronization has observed only
\* the second peer: the first row is disabled and keeps its history
C32_Witness ==
  /\ Len(promo_groups) = 2
  /\ ~promo_groups[1].enabled
  /\ promo_groups[2].enabled
  /\ \E s \in Slots : promo_history[<<now_day, s, 1>>] # <<>>

C33_Step ==
  stask' # stask =>
    \A u \in MemberIds : members[u].present => members'[u] = members[u]
\* C33: no step of a collection task changes a row of members that exists,
\* so the provenance tag and the outreach stamp of every member that was in
\* the Store when the run took its snapshot are what they were, whatever
\* the run is yielded.
C33_CollectionKeepsExistingRows == [][C33_Step]_vars
\* a run for chat "b" has gone over member 1, who was in the Store with
\* provenance "a" when the run started and has been contacted
C33_Witness ==
  \E j \in SJobIds :
    /\ stask[j].pc = "write"
    /\ stask[j].chat = "b"
    /\ stask[j].roster = <<1>>
    /\ stask[j].pos = 1
    /\ 1 \in stask[j].ids_at_start
    /\ members[1].source_chat = "a"
    /\ members[1].last_broadcast_status = "sent"

C34_Step ==
  \A j \in SJobIds :
    (SCRAPE_JOBS[j].status = "running" /\ SCRAPE_JOBS[j].cancel_requested) =>
      \/ SCRAPE_JOBS'[j].cancel_requested
      \/ SCRAPE_JOBS'[j].status \in {"done", "error", "cancelled"}
\* C34 (as claimed): the cancellation flag of a running collection job,
\* once set, stays set until the job has a terminal status.
C34_CancelFlagStays == [][C34_Step]_vars

C35_Step ==
  (promo_paused /\ sched.pc # "send") => sched'.pc # "send"
\* C35 (as claimed): while promo_paused is set the scheduler begins no
\* send, whether the pass over the slot's targets is already under way or not.
C35_NoSendBegunWhilePaused == [][C35_Step]_vars

\* C36: promo_history holds at most one row, of whatever status, for a
\* (day-key, slot, target), and the target a pass is sending to or recording
\* has no row yet for the day-key and slot of the pass.
C36_AtMostOneRow ==
  /\ \A k \in HistKeys : Len(promo_history[k]) <= 1
  /\ sched.pc \in {"send", "record"} =>
       promo_history[PassKey(sched.pending[sched.idx])] = <<>>
\* the first target of the slot has a failed row; a later pass for the same
\* slot and day sends to the second target only
C36_Witness ==
  /\ sched.pc = "send"
  /\ sched.pending = <<2>>
  /\ Len(promo_history[PassKey(1)]) = 1
  /\ promo_history[PassKey(1)][1].status = "failed"
  /\ promo_groups[1].enabled

C37_Step ==
  /\ \A j \in SJobIds :
       /\ SCRAPE_JOBS[j].status \in Terminal => SCRAPE_JOBS'[j] = SCRAPE_JOBS[j]
       /\ SCRAPE_JOBS[j].status = "running" =>
            SCRAPE_JOBS'[j].status \in Terminal \cup {"running"}
       /\ SCRAPE_JOBS[j].status = "absent" =>
            SCRAPE_JOBS'[j].status \in {"absent", "running"}
  /\ \A j \in BJobIds :
       /\ BROADCAST_JOBS[j].status \in Terminal => BROADCAST_JOBS'[j] = BROADCAST_JOBS[j]
       /\ BROADCAST_JOBS[j].status = "running" =>
            BROADCAST_JOBS'[j].status \in Terminal \cup {"running"}
       /\ BROADCAST_JOBS[j].status = "absent" =>
            BROADCAST_JOBS'[j].status \in {"absent", "running"}
\* C37: the status of a job record goes from running to a terminal status
\* and no step changes a record whose status is terminal, a cancellation
\* request for that job included.
C37_TerminalRecordIsFinal == [][C37_Step]_vars
\* the two calls so far were a send_start, whose job has ended unflagged,
\* and a send_stop for that finished job
C37_Witness ==
  /\ ops = 2
  /\ reply = NoReply
  /\ \A j \in SJobIds : SCRAPE_JOBS[j].status = "absent"
  /\ bsubmit = [IdleSubmit EXCEPT !.result = "started"]
  /\ BROADCAST_JOBS[1].status \in Terminal
  /\ ~BROADCAST_JOBS[1].cancel_requested
  /\ BROADCAST_JOBS[2].status = "absent"

C38_Step ==
  \A j \in SJobIds :
    (\/ SCRAPE_JOBS[j].status = "running"
     \/ /\ SCRAPE_JOBS[j].status \in Terminal
        /\ SCRAPE_JOBS[j].finished_at >= clock - JOB_RETENTION_SECONDS) =>
      SCRAPE_JOBS'[j].status # "absent"
\* C38: no step, the evictions run by scrape and scrape_status included,
\* removes from SCRAPE_JOBS a job whose status is running or a finished job
\* whose finished_at is within the retention window.
C38_EvictionKeepsLiveJobs == [][C38_Step]_vars
\* the second job was submitted, with its eviction, while the first was
\* running; the first has finished within the window and a status request,
\* with its eviction, has been answered since: both are in the registry
C38_Witness ==
  /\ SCRAPE_JOBS[1].status \in {"done", "error"}
  /\ SCRAPE_JOBS[1].finished_at >= clock - JOB_RETENTION_SECONDS
  /\ SCRAPE_JOBS[2].status = "running"
  /\ reply.op = "scrape_status"
  /\ reply.n = 3

C39_Step ==
  /\ \A j \in BJobIds :
       BROADCAST_JOBS[j].status # "absent" =>
         /\ BROADCAST_JOBS'[j].processed >= BROADCAST_JOBS[j].processed
         /\ BROADCAST_JOBS'[j].sent_success >= BROADCAST_JOBS[j].sent_success
         /\ BROADCAST_JOBS'[j].sent_failed >= BROADCAST_JOBS[j].sent_failed
         /\ BROADCAST_JOBS'[j].total = BROADCAST_JOBS[j].total
  /\ \A j \in SJobIds :
       SCRAPE_JOBS[j].status # "absent" =>
         /\ SCRAPE_JOBS'[j].processed >= SCRAPE_JOBS[j].processed
         /\ SCRAPE_JOBS'[j].total >= SCRAPE_JOBS[j].total
\* C39: the record of a broadcast job always has sent_success + sent_failed
\* <= processed <= total, the record of a collection job always has total <=
\* processed, and no step lowers a counter of an existing record.
C39_CounterOrder ==
  /\ [](\A j \in BJobIds :
          /\ BROADCAST_JOBS[j].sent_success + BROADCAST_JOBS[j].sent_failed
               <= BROADCAST_JOBS[j].processed
          /\ BROADCAST_JOBS[j].processed <= BROADCAST_JOBS[j].total)
  /\ [](\A j \in SJobIds : SCRAPE_JOBS[j].total <= SCRAPE_JOBS[j].processed)
  /\ [][C39_Step]_vars
\* a broadcast job has counted a failed send to its only recipient and a
\* collection job has processed a member that was not new
C39_Witness ==
  /\ \E j \in BJobIds : /\ BROADCAST_JOBS[j].total = 1
                        /\ BROADCAST_JOBS[j].processed = 1
                        /\ BROADCAST_JOBS[j].sent_failed = 1
  /\ \E j \in SJobIds : /\ SCRAPE_JOBS[j].processed = 1
                        /\ SCRAPE_JOBS[j].total = 0

\* C40 (as claimed): the export named by the record of a collection job
\* that ended with status error was written by that job.
C40_FailedJobNamesOwnExport ==
  \A j \in SJobIds :
    (SCRAPE_JOBS[j].status = "error" /\ SCRAPE_JOBS[j].csv_path # "none") =>
      /\ exports[SCRAPE_JOBS[j].csv_path].exists
      /\ exports[SCRAPE_JOBS[j].csv_path].job = j

====
